---- MODULE Spec2Model ----
(***************************************************************************)
(* Session manager and streaming event translator of ClaudeCodeMonitor.    *)
(*                                                                         *)
(*   src-tauri/src/backend/claude_cli.rs  WorkspaceSession (the store)     *)
(*   src-tauri/src/claude.rs              send_user_message,               *)
(*                                        ensure_persistent_session,       *)
(*                                        read_persistent_stdout/stderr,   *)
(*                                        format_token_usage               *)
(*   src-tauri/src/bin/codex_monitor_daemon.rs  the daemon's copies        *)
(*                                                                         *)
(* Conventions.  Option<T> is a sequence: <<>> is None, <<v>> is Some(v).  *)
(* A HashMap is a function whose DOMAIN is its key set.  A String that the *)
(* code slices or compares by prefix is a sequence of characters (small    *)
(* naturals).  Uuid::new_v4() is the next value of the counter uuid_next.  *)
(***************************************************************************)
EXTENDS Integers, Sequences, FiniteSets, TLC

\* ------------------------------------------------------------------ bounds
MaxCallers == 2
MaxStdin == 1
MaxStoreProcs == 2
MaxApiTurn == 2
MaxLines == 3
MaxRequests == 2
MaxPublished == 1
MaxBroadcast == 3
\* the slots of the daemon's broadcast channel (2048 in the program)
Capacity == 1
MaxPathEntries == 3
MaxTurnLines == 1
MaxLogLines == 3
MaxAcquirers == 2
MaxInterrupts == 1

\* ------------------------------------------------------------- the universe
Threads == {"t1", "t2"}
\* One process per store spawn or per call at most.
MaxProcs == IF MaxCallers > MaxStoreProcs THEN MaxCallers ELSE MaxStoreProcs
Procs == 1..MaxProcs
ApiTurnIds == 1..MaxApiTurn

None == <<>>
Some(v) == <<v>>
IsSome(o) == o # <<>>
Unwrap(o) == o[1]
UnwrapOr(o, d) == IF o = <<>> THEN d ELSE o[1]

\* A HashMap as a function: insert, remove.
MapInsert(m, k, v) == [x \in (DOMAIN m) \cup {k} |-> IF x = k THEN v ELSE m[x]]
MapRemove(m, k) == [x \in (DOMAIN m) \ {k} |-> m[x]]
EmptyMap == [x \in {} |-> 0]

VARIABLES
    persistent_sessions,   \* WorkspaceSession.persistent_sessions: thread -> PersistentSession
    active_turns,          \* WorkspaceSession.active_turns: thread -> ActiveTurn
    session_init_lock,     \* WorkspaceSession.session_init_lock: 0 when free, else the call holding it
    child,                 \* per process: the OS process and its tokio Child handle
    stdin,                 \* per process: the lines written to its standard input, not yet consumed
    stdout,                \* per process: the lines it printed that its stdout loop has not read yet
    answering,             \* per process: the written message it is answering (0: none)
    printed,               \* per process: every line it has printed, in order (history)
    call,                  \* per caller: its send_user_message call (position and locals)
    reader,                \* per process: the locals of its read_persistent_stdout task
    stderr_task,           \* per process: its read_persistent_stderr task
    events,                \* the events emitted to the event sink, in order
    uuid_next,             \* the next value Uuid::new_v4() returns
    last,                  \* the store operation performed last and what it returned
    usage_call,            \* one call of format_token_usage: its arguments and results
    config,                \* the daemon's DaemonConfig: its token
    client,                \* per connection of the daemon: its handle_client task
    path_call,             \* one call of build_claude_path_env: its environment and result
    connected,             \* whether AppState.sessions holds the workspace's session
    thread_call,           \* one call of build_thread_from_session: the session log and the items
    task_lock              \* one task list's lock file, and the calls of FileLock::acquire on it

storeVars == <<persistent_sessions, active_turns, child, stdin>>
taskVars == <<session_init_lock, stdout, answering, printed, call, reader, stderr_task, events, uuid_next>>
daemonVars == <<config, client>>
envVars == <<path_call, connected, thread_call, task_lock>>
vars == <<persistent_sessions, active_turns, session_init_lock, child, stdin, stdout, answering,
          printed, call, reader, stderr_task, events, uuid_next, last, usage_call, config, client, path_call,
          connected, thread_call, task_lock>>

\* --------------------------------------------------------------- processes
\* status: "unspawned" (not yet created), "running", "exited" (terminated, the
\* handle has not observed it), "reaped" (the handle has observed the exit:
\* tokio's FusedChild::Done, on which start_kill fails with InvalidInput).
\* exit: how a per-turn process ended ("success", "failure", "signal"), which
\* is what wait() returns for it.
NoChild == [status |-> "unspawned", thread |-> "", kind |-> "", exit |-> ""]
Spawned(t, k) == [status |-> "running", thread |-> t, kind |-> k, exit |-> ""]
Unspawned(ch) == {p \in Procs : ch[p].status = "unspawned"}
FreshProc(ch) == CHOOSE p \in Unspawned(ch) : \A q \in Unspawned(ch) : p <= q
Live(ch, p) == ch[p].status = "running"

\* child.kill().await: SIGKILL then wait.  An already reaped handle fails.
ChildKill(ch, p) ==
    IF ch[p].status = "reaped"
    THEN [child |-> ch, ok |-> FALSE, err |-> "InvalidInput", ev |-> "kill failed"]
    ELSE [child |-> [ch EXCEPT ![p].status = "reaped"], ok |-> TRUE, err |-> "", ev |-> "kill"]

\* ------------------------------------------------- WorkspaceSession (store)
PersistentSession(p, mode, model) ==
    [child |-> p, pending_turn_id |-> None, permission_mode |-> mode, model |-> model]

ActiveTurn(turn, p) == [turn_id |-> turn, child |-> p]

\* a lookup that ignores the key
has_persistent_session_AnyKey(ps, t) == DOMAIN ps # {}
has_persistent_session(ps, t) == t \in DOMAIN ps

set_persistent_session(ps, t, p, mode, model) ==
    MapInsert(ps, t, PersistentSession(p, mode, model))

get_persistent_session_permission_mode(ps, t) ==
    IF t \in DOMAIN ps THEN ps[t].permission_mode ELSE None

get_persistent_session_model(ps, t) ==
    IF t \in DOMAIN ps THEN ps[t].model ELSE None

\* a set that writes the slot of every session
set_pending_turn_id_EveryThread(ps, t, id) ==
    IF t \in DOMAIN ps THEN [u \in DOMAIN ps |-> [ps[u] EXCEPT !.pending_turn_id = Some(id)]] ELSE ps
set_pending_turn_id(ps, t, id) ==
    IF t \in DOMAIN ps THEN [ps EXCEPT ![t].pending_turn_id = Some(id)] ELSE ps

\* a take that reads the slot without emptying it
take_pending_turn_id_Peek(ps, t) ==
    [ret |-> IF t \in DOMAIN ps THEN ps[t].pending_turn_id ELSE None, sessions |-> ps]
\* Option::take on the slot: the value, and the store with the slot emptied.
take_pending_turn_id(ps, t) ==
    IF t \in DOMAIN ps
    THEN [ret |-> ps[t].pending_turn_id,
          sessions |-> [ps EXCEPT ![t].pending_turn_id = None]]
    ELSE [ret |-> None, sessions |-> ps]

\* io: what an operation does to the two mutexes and to a process, in program
\* order: the lock and the drop of a guard, and each await on process I/O
\* ("flush", "write", "kill", or "kill failed" where the kill returned an error).

\* a kill that leaves the entry in the map
kill_persistent_session_KeepEntry(ps, ch, t) ==
    IF t \in DOMAIN ps
    THEN LET k == ChildKill(ch, ps[t].child)
         IN  [sessions |-> ps, child |-> k.child, ok |-> k.ok, err |-> k.err,
              io |-> <<"lock persistent_sessions", "flush", k.ev, "unlock persistent_sessions">>]
    ELSE [sessions |-> ps, child |-> ch, ok |-> TRUE, err |-> "",
          io |-> <<"lock persistent_sessions", "unlock persistent_sessions">>]
\* The guard `sessions` lives to the end of the function: the flush and the
\* kill are awaited under it.
kill_persistent_session(ps, ch, t) ==
    IF t \in DOMAIN ps
    THEN LET k == ChildKill(ch, ps[t].child)
         IN  [sessions |-> MapRemove(ps, t), child |-> k.child, ok |-> k.ok, err |-> k.err,
              io |-> <<"lock persistent_sessions", "flush", k.ev, "unlock persistent_sessions">>]
    ELSE [sessions |-> ps, child |-> ch, ok |-> TRUE, err |-> "",
          io |-> <<"lock persistent_sessions", "unlock persistent_sessions">>]

RECURSIVE KillEach(_, _)
KillEach(ch, ps) ==
    IF ps = {} THEN ch
    ELSE LET p == CHOOSE q \in ps : TRUE
         IN  KillEach(ChildKill(ch, p).child, ps \ {p})

\* for each drained session: flush, then kill, both results dropped (nothing
\* has waited on a session's child, so no kill fails)
kill_all_persistent_sessions(ps, ch) ==
    [sessions |-> EmptyMap,
     child |-> KillEach(ch, {ps[t].child : t \in DOMAIN ps}),
     ok |-> TRUE, err |-> "",
     io |-> <<"lock persistent_sessions">>
            \o [i \in 1..(2 * Cardinality(DOMAIN ps)) |-> IF i % 2 = 1 THEN "flush" ELSE "kill"]
            \o <<"unlock persistent_sessions">>]

track_turn(at, t, turn, p) == MapInsert(at, t, ActiveTurn(turn, p))

\* a clear that never compares the turn id
clear_turn_AnyTurn(at, t, turn) ==
    IF t \in DOMAIN at THEN MapRemove(at, t) ELSE at
clear_turn(at, t, turn) ==
    IF t \in DOMAIN at /\ at[t].turn_id = turn THEN MapRemove(at, t) ELSE at

\* an interrupt that never compares the turn id
interrupt_turn_AnyTurn(at, ps, ch, t, turn) ==
    IF t \in DOMAIN at
    THEN LET k == ChildKill(ch, at[t].child)
         IN  [active_turns |-> MapRemove(at, t), sessions |-> ps, child |-> k.child,
              ok |-> k.ok \/ k.err = "InvalidInput",
              err |-> IF k.err = "InvalidInput" THEN "" ELSE k.err,
              io |-> <<"lock active_turns", k.ev, "unlock active_turns">>]
    ELSE LET k == kill_persistent_session(ps, ch, t)
         IN  [active_turns |-> at, sessions |-> k.sessions, child |-> k.child,
              ok |-> k.ok, err |-> k.err, io |-> <<"lock active_turns", "unlock active_turns">> \o k.io]
\* an interrupt that returns every kill error of a matching turn
interrupt_turn_SurfaceKillError(at, ps, ch, t, turn) ==
    IF t \in DOMAIN at
    THEN IF at[t].turn_id = turn
         THEN LET k == ChildKill(ch, at[t].child)
              IN  [active_turns |-> MapRemove(at, t), sessions |-> ps, child |-> k.child,
                   ok |-> k.ok, err |-> k.err,
                   io |-> <<"lock active_turns", k.ev, "unlock active_turns">>]
         ELSE [active_turns |-> at, sessions |-> ps, child |-> ch, ok |-> TRUE, err |-> "",
               io |-> <<"lock active_turns", "unlock active_turns">>]
    ELSE LET k == kill_persistent_session(ps, ch, t)
         IN  [active_turns |-> at, sessions |-> k.sessions, child |-> k.child,
              ok |-> k.ok, err |-> k.err,
              io |-> <<"lock active_turns", "unlock active_turns">> \o k.io]
\* The guard `active_turns` lives to the end of the first block: a matching
\* turn's kill is awaited under it.
interrupt_turn(at, ps, ch, t, turn) ==
    IF t \in DOMAIN at
    THEN IF at[t].turn_id = turn
         THEN LET k == ChildKill(ch, at[t].child)
              IN  [active_turns |-> MapRemove(at, t), sessions |-> ps, child |-> k.child,
                   ok |-> k.ok \/ k.err = "InvalidInput",
                   err |-> IF k.err = "InvalidInput" THEN "" ELSE k.err,
                   io |-> <<"lock active_turns", k.ev, "unlock active_turns">>]
         ELSE [active_turns |-> at, sessions |-> ps, child |-> ch, ok |-> TRUE, err |-> "",
               io |-> <<"lock active_turns", "unlock active_turns">>]
    ELSE LET k == kill_persistent_session(ps, ch, t)
         IN  [active_turns |-> at, sessions |-> k.sessions, child |-> k.child,
              ok |-> k.ok, err |-> k.err, io |-> <<"lock active_turns", "unlock active_turns">> \o k.io]

\* session.stdin.write_all(line): fails once the process is gone (broken pipe).
\* Each element of a process's stdin is one line: the JSON text and its '\n'.
StdinUser(from) == [kind |-> "user", from |-> from]
StdinResponse == [kind |-> "tool_result", from |-> 0]

\* a write that goes to every session's process
WriteLine_EverySession(ps, ch, si, t, line) ==
    IF t \notin DOMAIN ps
    THEN [stdin |-> si, ok |-> FALSE, err |-> "NoSession",
          io |-> <<"lock persistent_sessions", "unlock persistent_sessions">>]
    ELSE [stdin |-> [p \in DOMAIN si |->
                        IF \E u \in DOMAIN ps : ps[u].child = p /\ Live(ch, p)
                        THEN Append(si[p], line) ELSE si[p]],
          ok |-> Live(ch, ps[t].child),
          err |-> IF Live(ch, ps[t].child) THEN "" ELSE "BrokenPipe",
          io |-> <<"lock persistent_sessions", "write", "unlock persistent_sessions">>]
\* The guard `sessions` lives to the end of the function: write_all is awaited
\* under it.
WriteLine(ps, ch, si, t, line) ==
    IF t \notin DOMAIN ps
    THEN [stdin |-> si, ok |-> FALSE, err |-> "NoSession",
          io |-> <<"lock persistent_sessions", "unlock persistent_sessions">>]
    ELSE IF ~Live(ch, ps[t].child)
         THEN [stdin |-> si, ok |-> FALSE, err |-> "BrokenPipe",
               io |-> <<"lock persistent_sessions", "write", "unlock persistent_sessions">>]
         ELSE [stdin |-> [si EXCEPT ![ps[t].child] = Append(@, line)], ok |-> TRUE, err |-> "",
               io |-> <<"lock persistent_sessions", "write", "unlock persistent_sessions">>]

send_message(ps, ch, si, t, from) == WriteLine(ps, ch, si, t, StdinUser(from))

send_response(ps, ch, si, t) == WriteLine(ps, ch, si, t, StdinResponse)

\* ------------------------------------------------------------ token usage
\* A JSON number or string of a usage object: an integer, a string that parses
\* as an integer, or anything else (a float, null, other text).
Num(n) == [k |-> "int", n |-> n]
Str(n) == [k |-> "str", n |-> n]
Bad == [k |-> "bad", n |-> 0]

RECURSIVE usage_number(_, _)
usage_number(map, keys) ==
    IF keys = <<>> THEN 0
    ELSE LET key == Head(keys)
         IN  IF key \in DOMAIN map /\ map[key].k \in {"int", "str"}
             THEN map[key].n
             ELSE usage_number(map, Tail(keys))

TokenCounts(map) ==
    LET input_tokens == usage_number(map, <<"input_tokens", "inputTokens">>)
        output_tokens == usage_number(map, <<"output_tokens", "outputTokens">>)
        cached_read == usage_number(map, <<"cache_read_input_tokens", "cacheReadInputTokens">>)
        cached_create ==
            usage_number(map, <<"cache_creation_input_tokens", "cacheCreationInputTokens">>)
        cached_input_tokens == cached_read + cached_create
        reasoning_output_tokens ==
            usage_number(map, <<"reasoning_output_tokens", "reasoningOutputTokens">>)
        total_tokens == input_tokens + output_tokens + cached_input_tokens
    IN  [totalTokens |-> total_tokens,
         inputTokens |-> input_tokens,
         cachedInputTokens |-> cached_input_tokens,
         outputTokens |-> output_tokens,
         reasoningOutputTokens |-> reasoning_output_tokens]

\* modelUsage: the contextWindow of the first entry of the map, when an integer.
ModelContextWindow(model_usage) ==
    IF model_usage = None THEN None
    ELSE LET mu == model_usage[1]
         IN  IF ~mu.is_object \/ mu.entries = <<>> THEN None
             ELSE mu.entries[1].contextWindow

\* claude.rs
format_token_usage(raw, model_usage) ==
    IF ~raw.is_object THEN None
    ELSE Some([total |-> TokenCounts(raw.map),
               last |-> TokenCounts(raw.map),
               modelContextWindow |-> ModelContextWindow(model_usage)])

\* codex_monitor_daemon.rs: its own copy, which takes no modelUsage
daemon_format_token_usage(raw) ==
    IF ~raw.is_object THEN None
    ELSE Some([total |-> TokenCounts(raw.map), last |-> TokenCounts(raw.map)])

\* ------------------------------------------------- the stdout translator
\* Identifiers the code builds with format!: a kind and its parts.  A string
\* taken from the stream as it is (a tool-use id, a line's uuid) is "raw";
\* raw 0 is the empty string.
Id(kind, turn, n, raw) == [kind |-> kind, turn |-> turn, n |-> n, raw |-> raw]
NoId == Id("", 0, 0, 0)
RawId(r) == Id("raw", 0, 0, r)
AssistantItemId(turn) == Id("assistant", turn, 0, 0)
ToolItemId(turn, n) == Id("tool", turn, n, 0)
ToolResultItemId(turn, n) == Id("tool-result", turn, n, 0)
ThinkingItemId(item, n) ==
    Id(IF item.kind = "assistant" THEN "assistant-thinking" ELSE "raw-thinking",
       item.turn, n, item.raw)
DenialId(tool_use_id, command, index) ==
    IF tool_use_id = 0
    THEN [raw |-> 0, command |-> command, index |-> index]
    ELSE [raw |-> tool_use_id, command |-> "", index |-> 0]

\* An emitted event: method and the parameters the claims read.  proc and msg
\* are history: the process whose loop emitted it, the written message that
\* the line behind it answers.
Event(method, t, turn) ==
    [method |-> method, thread |-> t, turn |-> turn, item |-> NoId, itype |-> "",
     text |-> <<>>, status |-> "", output |-> None, outkey |-> "", tool_use |-> 0,
     usage |-> None, denials |-> <<>>, proc |-> 0, msg |-> 0]

RECURSIVE Stamp(_, _, _)
Stamp(evs, p, m) ==
    IF evs = <<>> THEN <<>>
    ELSE <<[Head(evs) EXCEPT !.proc = p, !.msg = m]>> \o Stamp(Tail(evs), p, m)

\* parse_mcp_tool_name and the name tests of build_tool_item, on the tool names
\* the model's streams use.
ToolNames == {"Bash", "Write", "WebSearch", "mcp__srv__tool", "AskUserQuestion", "Task"}
IsMcpToolName(name) == name \in {"mcp__srv__tool"}
\* every tool taken for an MCP tool
ToolItemType_AlwaysMcp(name) == "mcpToolCall"
ToolItemType(name) ==
    IF IsMcpToolName(name) THEN "mcpToolCall"
    ELSE IF name \in {"WebSearch"} THEN "webSearch"
    ELSE IF name \in {"Write", "Edit", "MultiEdit", "NotebookEdit"} THEN "fileChange"
    ELSE "commandExecution"

\* every completed item typed as a command execution
build_tool_item_CompletedAsCommand(ev, id, tool_name, status, output) ==
    [ev EXCEPT !.item = id,
               !.itype = IF status = "completed" THEN "commandExecution"
                         ELSE ToolItemType(tool_name),
               !.status = status,
               !.output = output,
               !.outkey = IF output = None THEN "" ELSE "aggregatedOutput"]
build_tool_item(ev, id, tool_name, status, output) ==
    [ev EXCEPT !.item = id,
               !.itype = ToolItemType(tool_name),
               !.status = status,
               !.output = output,
               !.outkey = IF output = None THEN ""
                          ELSE IF IsMcpToolName(tool_name) THEN "result"
                          ELSE "aggregatedOutput"]

SubagentNote == <<0>>
collapse_subagent_output(output, command) ==
    IF command = "Task" THEN SubagentNote ELSE output

\* String::starts_with and the slice after the prefix.
StartsWith(s, prefix) ==
    /\ Len(prefix) <= Len(s)
    /\ SubSeq(s, 1, Len(prefix)) = prefix

\* the whole snapshot every time
Delta_WholeText(full_text, last_text) == full_text
Delta(full_text, last_text) ==
    IF StartsWith(full_text, last_text)
    THEN SubSeq(full_text, Len(last_text) + 1, Len(full_text))
    ELSE full_text

RECURSIVE extract_text_from_content(_)
extract_text_from_content(content) ==
    IF content = <<>> THEN <<>>
    ELSE (IF Head(content).type = "text" THEN Head(content).text ELSE <<>>)
         \o extract_text_from_content(Tail(content))

\* The locals of read_persistent_stdout.
ReaderInit(initial_turn_id) ==
    [current_turn_id |-> initial_turn_id,
     item_id |-> AssistantItemId(initial_turn_id),
     full_text |-> <<>>,
     last_text |-> <<>>,
     last_usage |-> None,
     last_model_usage |-> None,
     tool_names |-> EmptyMap,
     tool_counter |-> 0,
     thinking_counter |-> 0,
     request_id_counter |-> 0,
     permission_denial_ids |-> {},
     turn_active |-> FALSE,
     status |-> "running"]

NoReader == [ReaderInit(0) EXCEPT !.status = "none"]

\* Lines the loop drops before looking at their type: blank or not JSON, or a
\* subagent's (parent_tool_use_id set).
Skipped(line) == line.type = "junk" \/ line.parent

\* a turn started by every assistant line
StartsTurn_AnyAssistant(rd, line) == ~Skipped(line) /\ line.type = "assistant"
StartsTurn(rd, line) == ~Skipped(line) /\ line.type = "assistant" /\ ~rd.turn_active

TurnStart(rd, t, turn) ==
    [rd |-> [rd EXCEPT !.turn_active = TRUE,
                       !.current_turn_id = turn,
                       !.item_id = AssistantItemId(turn),
                       !.full_text = <<>>,
                       !.last_text = <<>>,
                       !.last_usage = None,
                       !.last_model_usage = None,
                       !.tool_names = EmptyMap,
                       !.tool_counter = 0,
                       !.thinking_counter = 0,
                       !.permission_denial_ids = {}],
     evs |-> << Event("turn/started", t, turn),
                [Event("item/started", t, 0) EXCEPT !.item = AssistantItemId(turn),
                                                    !.itype = "agentMessage"] >>]

\* One entry of an assistant message's content array.
AssistantEntry(acc, entry, t) ==
    LET rd == acc.rd
    IN  IF entry.type = "thinking"
        THEN IF entry.text # <<>>
             THEN LET n == rd.thinking_counter + 1
                  IN  [rd |-> [rd EXCEPT !.thinking_counter = n],
                       evs |-> Append(acc.evs,
                                 [Event("item/started", t, 0) EXCEPT
                                     !.item = ThinkingItemId(rd.item_id, n),
                                     !.itype = "reasoning",
                                     !.text = entry.text])]
             ELSE acc
        ELSE IF entry.type # "tool_use" THEN acc
        ELSE LET named == IF entry.id # 0
                          THEN [rd EXCEPT !.tool_names = MapInsert(@, entry.id, entry.name)]
                          ELSE rd
                 counted == IF entry.id = 0
                            THEN [named EXCEPT !.tool_counter = @ + 1]
                            ELSE named
                 item_id_tool == IF entry.id = 0
                                 THEN ToolItemId(rd.current_turn_id, counted.tool_counter)
                                 ELSE RawId(entry.id)
                 ask == entry.name = "AskUserQuestion"
                 asked == IF ask THEN [counted EXCEPT !.request_id_counter = @ + 1]
                          ELSE counted
                 request == [Event("item/tool/requestUserInput", t, rd.current_turn_id)
                                EXCEPT !.item = item_id_tool, !.tool_use = entry.id]
                 started == build_tool_item(Event("item/started", t, 0), item_id_tool,
                                            entry.name, "running", None)
             IN  [rd |-> asked,
                  evs |-> acc.evs \o (IF ask THEN <<request>> ELSE <<>>) \o <<started>>]

RECURSIVE AssistantEntries(_, _, _)
AssistantEntries(acc, content, t) ==
    IF content = <<>> THEN acc
    ELSE AssistantEntries(AssistantEntry(acc, Head(content), t), Tail(content), t)

AssistantLine(acc0, line, t) ==
    LET rd0 == acc0.rd
        rd1 == IF line.uuid # 0 THEN [rd0 EXCEPT !.item_id = RawId(line.uuid)] ELSE rd0
        acc == AssistantEntries([rd |-> rd1, evs |-> acc0.evs], line.content, t)
        text == extract_text_from_content(line.content)
        delta == Delta(text, acc.rd.last_text)
        rd2 == IF text # <<>>
               THEN [acc.rd EXCEPT !.full_text = text,
                                   !.last_text = IF delta # <<>> THEN text ELSE @]
               ELSE acc.rd
        evs2 == IF text # <<>> /\ delta # <<>>
                THEN Append(acc.evs, [Event("item/agentMessage/delta", t, 0) EXCEPT
                                         !.item = acc.rd.item_id, !.text = delta])
                ELSE acc.evs
        rd3 == IF line.usage # None THEN [rd2 EXCEPT !.last_usage = line.usage] ELSE rd2
    IN  [rd |-> rd3, evs |-> evs2]

\* One entry of a user message's content array, at position index (from 0).
UserEntry(acc, entry, index, t) ==
    IF entry.type # "tool_result" THEN acc
    ELSE LET rd == acc.rd
             tool_use_id == entry.id
             is_permission_denial == entry.is_error /\ entry.denial
             command == IF tool_use_id \in DOMAIN rd.tool_names
                        THEN rd.tool_names[tool_use_id] ELSE "Tool"
             denial_id == DenialId(tool_use_id, command, index)
             fresh_denial == is_permission_denial /\ denial_id \notin rd.permission_denial_ids
             rd1 == IF is_permission_denial
                    THEN [rd EXCEPT !.permission_denial_ids = @ \cup {denial_id}]
                    ELSE rd
             denied == [Event("turn/permissionDenied", t, rd.current_turn_id) EXCEPT
                           !.denials = <<denial_id>>]
             output == collapse_subagent_output(entry.text, command)
             rd2 == IF tool_use_id = 0 THEN [rd1 EXCEPT !.tool_counter = @ + 1] ELSE rd1
             item_id_result == IF tool_use_id = 0
                               THEN ToolResultItemId(rd.current_turn_id, rd2.tool_counter)
                               ELSE RawId(tool_use_id)
             completed == build_tool_item(Event("item/completed", t, 0), item_id_result,
                                          command, "completed", Some(output))
         IN  [rd |-> rd2,
              evs |-> acc.evs \o (IF fresh_denial THEN <<denied>> ELSE <<>>) \o <<completed>>]

RECURSIVE UserEntries(_, _, _, _)
UserEntries(acc, content, index, t) ==
    IF content = <<>> THEN acc
    ELSE UserEntries(UserEntry(acc, Head(content), index, t), Tail(content), index + 1, t)

\* every named entry of the array reported, seen before or not
RECURSIVE ResultDenials_Unfiltered(_, _, _)
ResultDenials_Unfiltered(acc, items, index) ==
    IF items = <<>> THEN acc
    ELSE LET entry == Head(items)
             denial_id == DenialId(entry.tool_use_id, entry.tool_name, index)
             next == IF entry.tool_name = "" THEN acc
                     ELSE [ids |-> acc.ids \cup {denial_id},
                           denials |-> Append(acc.denials, denial_id)]
         IN  ResultDenials_Unfiltered(next, Tail(items), index + 1)
\* The permission_denials array of a result line: the entries not yet reported.
RECURSIVE ResultDenials(_, _, _)
ResultDenials(acc, items, index) ==
    IF items = <<>> THEN acc
    ELSE LET entry == Head(items)
             denial_id == DenialId(entry.tool_use_id, entry.tool_name, index)
             next == IF entry.tool_name = "" \/ denial_id \in acc.ids THEN acc
                     ELSE [ids |-> acc.ids \cup {denial_id},
                           denials |-> Append(acc.denials, denial_id)]
         IN  ResultDenials(next, Tail(items), index + 1)

ResultLine(acc0, line, t) ==
    LET rd0 == acc0.rd
        rd1 == [rd0 EXCEPT
                  !.last_usage = IF line.usage # None THEN line.usage ELSE @,
                  !.last_model_usage = IF line.model_usage # None THEN line.model_usage ELSE @]
        d == ResultDenials([ids |-> rd1.permission_denial_ids, denials |-> <<>>],
                           line.denials, 0)
        rd2 == [rd1 EXCEPT !.permission_denial_ids = d.ids]
        evs1 == IF d.denials # <<>>
                THEN Append(acc0.evs, [Event("turn/permissionDenied", t, rd2.current_turn_id)
                                          EXCEPT !.denials = d.denials])
                ELSE acc0.evs
        usage == IF rd2.last_usage = None THEN None
                 ELSE format_token_usage(rd2.last_usage[1], rd2.last_model_usage)
        evs2 == IF usage # None
                THEN Append(evs1, [Event("thread/tokenUsage/updated", t, 0) EXCEPT
                                      !.usage = usage])
                ELSE evs1
        done == << [Event("item/completed", t, 0) EXCEPT !.item = rd2.item_id,
                                                          !.itype = "agentMessage",
                                                          !.text = rd2.full_text],
                   Event("turn/completed", t, rd2.current_turn_id) >>
    IN  IF rd2.turn_active
        THEN [rd |-> [rd2 EXCEPT !.last_usage = None, !.turn_active = FALSE],
              evs |-> evs2 \o done]
        ELSE [rd |-> rd2, evs |-> evs1]

SystemLine(acc, line, t) ==
    IF line.subtype = "init"
    THEN [rd |-> acc.rd, evs |-> Append(acc.evs, Event("session/initialized", t, 0))]
    ELSE acc

\* a loop that ends without closing the turn in flight
StdoutEnd_Silent(rd, t) == [rd |-> [rd EXCEPT !.status = "done"], evs |-> <<>>]
\* End of file, or a read error: the turn in flight is completed and the loop ends.
StdoutEnd(rd, t) ==
    [rd |-> [rd EXCEPT !.status = "done"],
     evs |-> IF rd.turn_active
             THEN <<Event("turn/completed", t, rd.current_turn_id)>>
             ELSE <<>>]

\* One iteration of the loop on a line read; turn is the id a turn started by
\* this line gets (the pending turn id taken from the store, or a fresh uuid).
\* read_line returns Err on a read error and on a line whose bytes are not
\* valid UTF-8.
ProcessLine(rd, line, t, turn) ==
    IF line.type \in {"ioerror", "invalid_utf8"} THEN StdoutEnd(rd, t)
    ELSE IF Skipped(line) THEN [rd |-> rd, evs |-> <<>>]
    ELSE IF line.type = "system" /\ line.subtype = "init"
         THEN SystemLine([rd |-> rd, evs |-> <<>>], line, t)
    ELSE LET acc == IF StartsTurn(rd, line) THEN TurnStart(rd, t, turn)
                    ELSE [rd |-> rd, evs |-> <<>>]
         IN  IF line.type = "assistant" THEN AssistantLine(acc, line, t)
             ELSE IF line.type = "user" THEN UserEntries(acc, line.content, 0, t)
             ELSE IF line.type = "result" THEN ResultLine(acc, line, t)
             ELSE acc

\* ------------------------------------------------------------ store driver
\* The store's operations called one at a time with arbitrary arguments, as
\* the unit tests of claude_cli.rs do.
Fingerprints == {[mode |-> None, model |-> None], [mode |-> Some("plan"), model |-> Some("m1")]}
StoreCanSpawn == Unspawned(child) # {} /\ FreshProc(child) <= MaxStoreProcs
StoreCanWrite ==
    /\ Cardinality({p \in Procs : stdin[p] # <<>>}) < MaxStdin
    /\ \A p \in Procs : Len(stdin[p]) < MaxStdin

NoOp == [op |-> "", thread |-> "", turn |-> 0, ok |-> TRUE, err |-> "", ret |-> None, has |-> FALSE,
         io |-> <<>>]
Op(o, t, n, ok, err, ret, has) ==
    [op |-> o, thread |-> t, turn |-> n, ok |-> ok, err |-> err, ret |-> ret, has |-> has,
     io |-> <<>>]

\* The daemon's connections; one that has not been accepted yet.  Besides the
\* locals of handle_client (authenticated, events_task) and its two channels
\* (rx: the broadcast receiver, out: what was sent to the write task), a
\* connection keeps history: the number of lines read and the last one, the
\* number of calls of handle_rpc_request, and whether a line has presented the
\* configured token.
Conns == {"c1", "c2"}
NoLine == [kind |-> "", id |-> None, method |-> "", params |-> [type |-> "null"]]
NoClient ==
    [status |-> "none", authenticated |-> FALSE, events_task |-> FALSE, rx |-> <<>>,
     lagged |-> 0, out |-> <<>>, written |-> 0, writer |-> TRUE, tasks |-> 0, lines |-> 0, line |-> NoLine, dispatched |-> 0, presented |-> FALSE]
DaemonIdle ==
    /\ config = [token |-> None]
    /\ client = [c \in Conns |-> NoClient]

\* no call of build_claude_path_env yet; the workspace is connected
NoPathCall == [pc |-> "none"]
NoThreadCall == [pc |-> "none"]
\* no lock file, and nobody in create_task, update_task or delete_task
Acquirers == 1..MaxAcquirers
NoAcquire == [pc |-> "idle", op |-> "", attempts |-> 0]
NoTaskLock == [file |-> None, acq |-> [a \in Acquirers |-> NoAcquire]]
EnvIdle ==
    /\ path_call = NoPathCall
    /\ connected = TRUE
    /\ thread_call = NoThreadCall
    /\ task_lock = NoTaskLock

NoUsageCall ==
    [pc |-> "none", raw |-> [is_object |-> FALSE, map |-> EmptyMap], model_usage |-> None,
     out |-> None]
NoCall == [pc |-> "idle", thread |-> "", model |-> None, access_mode |-> None, turn_id |-> 0,
           current_permission_mode |-> None, current_model |-> None, spawned |-> 0,
           ok |-> TRUE, err |-> ""]
Callers == 1..MaxCallers
NoAnswer == [msg |-> 0, said |-> FALSE]

TasksIdle ==
    /\ session_init_lock = 0
    /\ stdout = [p \in Procs |-> <<>>]
    /\ answering = [p \in Procs |-> NoAnswer]
    /\ printed = [p \in Procs |-> <<>>]
    /\ call = [c \in Callers |-> NoCall]
    /\ reader = [p \in Procs |-> NoReader]
    /\ stderr_task = [p \in Procs |-> "none"]
    /\ events = <<>>
    /\ uuid_next = 1

StoreInit ==
    /\ persistent_sessions = EmptyMap
    /\ active_turns = EmptyMap
    /\ child = [p \in Procs |-> NoChild]
    /\ stdin = [p \in Procs |-> <<>>]
    /\ last = NoOp
    /\ TasksIdle
    /\ usage_call = NoUsageCall
    /\ DaemonIdle
    /\ EnvIdle

\* spawn_test_process, then set_persistent_session
StSetSession(t, mode, model) ==
    /\ StoreCanSpawn
    /\ LET p == FreshProc(child)
       IN  /\ child' = [child EXCEPT ![p] = Spawned(t, "persistent")]
           /\ persistent_sessions' = set_persistent_session(persistent_sessions, t, p, mode, model)
    /\ last' = Op("set_persistent_session", t, 0, TRUE, "", None, FALSE)
    /\ UNCHANGED <<active_turns, stdin, taskVars, usage_call, daemonVars, envVars>>

StHas(t) ==
    /\ last' = Op("has_persistent_session", t, 0, TRUE, "", None,
                  has_persistent_session(persistent_sessions, t))
    /\ UNCHANGED <<storeVars, taskVars, usage_call, daemonVars, envVars>>

StSetPending(t, id) ==
    /\ persistent_sessions' = set_pending_turn_id(persistent_sessions, t, id)
    /\ last' = Op("set_pending_turn_id", t, id, TRUE, "", None, FALSE)
    /\ UNCHANGED <<active_turns, child, stdin, taskVars, usage_call, daemonVars, envVars>>

StTakePending(t) ==
    LET r == take_pending_turn_id(persistent_sessions, t)
    IN  /\ persistent_sessions' = r.sessions
        /\ last' = Op("take_pending_turn_id", t, 0, TRUE, "", r.ret, FALSE)
        /\ UNCHANGED <<active_turns, child, stdin, taskVars, usage_call, daemonVars, envVars>>

StKill(t) ==
    LET r == kill_persistent_session(persistent_sessions, child, t)
    IN  /\ persistent_sessions' = r.sessions
        /\ child' = r.child
        /\ last' = [Op("kill_persistent_session", t, 0, r.ok, r.err, None, FALSE) EXCEPT !.io = r.io]
        /\ UNCHANGED <<active_turns, stdin, taskVars, usage_call, daemonVars, envVars>>

StKillAll ==
    LET r == kill_all_persistent_sessions(persistent_sessions, child)
    IN  /\ persistent_sessions' = r.sessions
        /\ child' = r.child
        /\ last' = [Op("kill_all_persistent_sessions", "", 0, r.ok, r.err, None, FALSE) EXCEPT !.io = r.io]
        /\ UNCHANGED <<active_turns, stdin, taskVars, usage_call, daemonVars, envVars>>

\* spawn_test_process, then track_turn
StTrackTurn(t, turn) ==
    /\ StoreCanSpawn
    /\ LET p == FreshProc(child)
       IN  /\ child' = [child EXCEPT ![p] = Spawned(t, "turn")]
           /\ active_turns' = track_turn(active_turns, t, turn, p)
    /\ last' = Op("track_turn", t, turn, TRUE, "", None, FALSE)
    /\ UNCHANGED <<persistent_sessions, stdin, taskVars, usage_call, daemonVars, envVars>>

StClearTurn(t, turn) ==
    /\ active_turns' = clear_turn(active_turns, t, turn)
    /\ last' = Op("clear_turn", t, turn, TRUE, "", None, FALSE)
    /\ UNCHANGED <<persistent_sessions, child, stdin, taskVars, usage_call, daemonVars, envVars>>

StInterrupt(t, turn) ==
    LET r == interrupt_turn(active_turns, persistent_sessions, child, t, turn)
    IN  /\ active_turns' = r.active_turns
        /\ persistent_sessions' = r.sessions
        /\ child' = r.child
        /\ last' = [Op("interrupt_turn", t, turn, r.ok, r.err, None, FALSE) EXCEPT !.io = r.io]
        /\ UNCHANGED <<stdin, taskVars, usage_call, daemonVars, envVars>>

StSendMessage(t) ==
    LET r == send_message(persistent_sessions, child, stdin, t, 0)
    IN  /\ StoreCanWrite
        /\ stdin' = r.stdin
        /\ last' = [Op("send_message", t, 0, r.ok, r.err, None, FALSE) EXCEPT !.io = r.io]
        /\ UNCHANGED <<persistent_sessions, active_turns, child, taskVars, usage_call, daemonVars, envVars>>

StSendResponse(t) ==
    LET r == send_response(persistent_sessions, child, stdin, t)
    IN  /\ StoreCanWrite
        /\ stdin' = r.stdin
        /\ last' = [Op("send_response", t, 0, r.ok, r.err, None, FALSE) EXCEPT !.io = r.io]
        /\ UNCHANGED <<persistent_sessions, active_turns, child, taskVars, usage_call, daemonVars, envVars>>

\* The process ends on its own.
StProcExit(p) ==
    /\ Live(child, p)
    /\ child' = [child EXCEPT ![p].status = "exited"]
    /\ last' = NoOp
    /\ UNCHANGED <<persistent_sessions, active_turns, stdin, taskVars, usage_call, daemonVars, envVars>>

\* run_claude_turn waits on the shared handle of a per-turn process: the handle
\* observes the exit.  Nothing waits on a persistent session's child.
StWait(p) ==
    /\ child[p].status = "exited"
    /\ child[p].kind = "turn"
    /\ child' = [child EXCEPT ![p].status = "reaped"]
    /\ last' = NoOp
    /\ UNCHANGED <<persistent_sessions, active_turns, stdin, taskVars, usage_call, daemonVars, envVars>>

StoreNext ==
    \/ \E t \in Threads, f \in Fingerprints : StSetSession(t, f.mode, f.model)
    \/ \E t \in Threads : StHas(t)
    \/ \E t \in Threads, id \in ApiTurnIds : StSetPending(t, id)
    \/ \E t \in Threads : StTakePending(t)
    \/ \E t \in Threads : StKill(t)
    \/ StKillAll
    \/ \E t \in Threads, turn \in ApiTurnIds : StTrackTurn(t, turn)
    \/ \E t \in Threads, turn \in ApiTurnIds : StClearTurn(t, turn)
    \/ \E t \in Threads, turn \in ApiTurnIds : StInterrupt(t, turn)
    \/ \E t \in Threads : StSendMessage(t)
    \/ \E t \in Threads : StSendResponse(t)
    \/ \E p \in Procs : StProcExit(p)
    \/ \E p \in Procs : StWait(p)

StoreSpec == StoreInit /\ [][StoreNext]_vars

\* ------------------------------------------------- lines of a process's stdout
Line(type) ==
    [type |-> type, subtype |-> "", uuid |-> 0, content |-> <<>>, usage |-> None,
     model_usage |-> None, denials |-> <<>>, parent |-> FALSE, msg |-> 0]

Block(type) ==
    [type |-> type, text |-> <<>>, id |-> 0, name |-> "", is_error |-> FALSE, denial |-> FALSE]
TextBlock(text) == [Block("text") EXCEPT !.text = text]
Thinking(text) == [Block("thinking") EXCEPT !.text = text]
ToolUse(id, name) == [Block("tool_use") EXCEPT !.id = id, !.name = name]
ToolResult(id, output, is_error, denial) ==
    [Block("tool_result") EXCEPT !.id = id, !.text = output, !.is_error = is_error,
                                 !.denial = denial]

Assistant(uuid, content) == [Line("assistant") EXCEPT !.uuid = uuid, !.content = content]
User(content) == [Line("user") EXCEPT !.content = content]
Result(usage, model_usage) ==
    [Line("result") EXCEPT !.usage = usage, !.model_usage = model_usage]

\* ------------------------------------------------------ the agent process
ProcExit(p) ==
    /\ Live(child, p)
    /\ child' = [child EXCEPT ![p].status = "exited"]
    /\ UNCHANGED <<persistent_sessions, active_turns, stdin, taskVars, last, usage_call, daemonVars, envVars>>

\* The process takes the next user message from its standard input.
ProcTake(p) ==
    /\ Live(child, p)
    /\ answering[p].msg = 0
    /\ stdin[p] # <<>>
    /\ answering' = [answering EXCEPT ![p] = [msg |-> Head(stdin[p]).from, said |-> FALSE]]
    /\ stdin' = [stdin EXCEPT ![p] = Tail(@)]
    /\ UNCHANGED <<persistent_sessions, active_turns, child, session_init_lock, stdout, printed,
                   call, reader, stderr_task, events, uuid_next, last, usage_call, daemonVars, envVars>>

WriteStdout(p, line) ==
    /\ Live(child, p)
    /\ stdout' = [stdout EXCEPT ![p] = Append(@, line)]
    /\ printed' = [printed EXCEPT ![p] = Append(@, line)]

\* It answers the message: at most one assistant line, then the result line.
ProcAnswer(p) ==
    /\ answering[p].msg # 0
    /\ \/ /\ ~answering[p].said
          /\ WriteStdout(p, [Line("assistant") EXCEPT !.msg = answering[p].msg])
          /\ answering' = [answering EXCEPT ![p].said = TRUE]
       \/ /\ WriteStdout(p, [Line("result") EXCEPT !.msg = answering[p].msg])
          /\ answering' = [answering EXCEPT ![p] = NoAnswer]
    /\ UNCHANGED <<storeVars, session_init_lock, call, reader, stderr_task, events, uuid_next,
                   last, usage_call, daemonVars, envVars>>

\* ------------------------------------------------- read_persistent_stdout
ReadStdout(p) ==
    /\ reader[p].status = "running"
    /\ stdout[p] # <<>>
    /\ LET line == Head(stdout[p])
           t == child[p].thread
           starts == StartsTurn(reader[p], line)
           taken == take_pending_turn_id(persistent_sessions, t)
           turn == UnwrapOr(taken.ret, uuid_next)
           r == ProcessLine(reader[p], line, t, turn)
       IN  /\ persistent_sessions' = IF starts THEN taken.sessions ELSE persistent_sessions
           /\ uuid_next' = IF starts /\ taken.ret = None THEN uuid_next + 1 ELSE uuid_next
           /\ reader' = [reader EXCEPT ![p] = r.rd]
           /\ events' = events \o Stamp(r.evs, p, line.msg)
    /\ stdout' = [stdout EXCEPT ![p] = Tail(@)]
    /\ UNCHANGED <<active_turns, child, stdin, session_init_lock, answering, printed, call,
                   stderr_task, last, usage_call, daemonVars, envVars>>

\* Ok(0): the process is gone and everything it printed has been read.
ReadStdoutEof(p) ==
    /\ reader[p].status = "running"
    /\ stdout[p] = <<>>
    /\ ~Live(child, p)
    /\ LET r == StdoutEnd(reader[p], child[p].thread)
       IN  /\ reader' = [reader EXCEPT ![p] = r.rd]
           /\ events' = events \o Stamp(r.evs, p, 0)
    /\ UNCHANGED <<storeVars, session_init_lock, stdout, answering, printed, call, stderr_task,
                   uuid_next, last, usage_call, daemonVars, envVars>>

\* ------------------------------------------------- read_persistent_stderr
\* End of file or a read error on the process's stderr: the task removes and
\* kills whatever session the thread has.
ReadStderrEnd(p) ==
    /\ stderr_task[p] = "running"
    /\ ~Live(child, p)
    /\ LET r == kill_persistent_session(persistent_sessions, child, child[p].thread)
       IN  /\ persistent_sessions' = r.sessions
           /\ child' = r.child
    /\ stderr_task' = [stderr_task EXCEPT ![p] = "done"]
    /\ UNCHANGED <<active_turns, stdin, session_init_lock, stdout, answering, printed, call,
                   reader, events, uuid_next, last, usage_call, daemonVars, envVars>>

\* ------------------------------------------------------- send_user_message
\* access_mode -> CLI permission mode, as stored and as compared
NormalizeMode(access_mode) ==
    IF access_mode = None THEN None
    ELSE LET mode == access_mode[1]
         IN  Some(CASE mode = "read-only" -> "plan"
                    [] mode = "full-access" -> "bypassPermissions"
                    [] mode = "current" -> "default"
                    [] OTHER -> mode)

\* model.filter(|m| !m.trim().is_empty())
RequestedModel(model) == IF model = Some("") THEN None ELSE model

\* The model and access mode of a call, as the frontend passes them: absent, a
\* model name, a blank model (""), an access mode ("current" is the CLI's default).
CallArgs ==
    {[model |-> None, access_mode |-> None],
     [model |-> Some("m1"), access_mode |-> None],
     [model |-> Some(""), access_mode |-> None],
     [model |-> None, access_mode |-> Some("current")],
     [model |-> None, access_mode |-> Some("read-only")]}
CallThreads == {"t1"}

At(c, pc) == call[c].pc = pc
Goto(c, pc) == call' = [call EXCEPT ![c].pc = pc]
\* a lock that excludes nobody
InitLockFree_NoExclusion(lock) == TRUE
InitLockFree(lock) == lock = 0

\* sessions.get(&workspace_id).ok_or("workspace not connected")?.clone(): the call
\* keeps its own reference to the workspace's session.
Begin(c, t, a) ==
    /\ At(c, "idle")
    /\ connected
    /\ call' = [call EXCEPT ![c] = [NoCall EXCEPT !.pc = "lock", !.thread = t,
                                                  !.model = a.model,
                                                  !.access_mode = a.access_mode]]
    /\ UNCHANGED <<storeVars, session_init_lock, stdout, answering, printed, reader,
                   stderr_task, events, uuid_next, last, usage_call, daemonVars, envVars>>

\* ensure_persistent_session: session_init_lock.lock().await
AcquireInitLock(c) ==
    /\ At(c, "lock")
    /\ InitLockFree(session_init_lock)
    /\ session_init_lock' = c
    /\ Goto(c, "has")
    /\ UNCHANGED <<storeVars, stdout, answering, printed, reader, stderr_task, events,
                   uuid_next, last, usage_call, daemonVars, envVars>>

CheckHas(c) ==
    /\ At(c, "has")
    /\ Goto(c, IF has_persistent_session(persistent_sessions, call[c].thread)
               THEN "mode" ELSE "spawn")
    /\ UNCHANGED <<storeVars, session_init_lock, stdout, answering, printed, reader,
                   stderr_task, events, uuid_next, last, usage_call, daemonVars, envVars>>

ReadMode(c) ==
    /\ At(c, "mode")
    /\ call' = [call EXCEPT
                  ![c].pc = "model",
                  ![c].current_permission_mode =
                      get_persistent_session_permission_mode(persistent_sessions, call[c].thread)]
    /\ UNCHANGED <<storeVars, session_init_lock, stdout, answering, printed, reader,
                   stderr_task, events, uuid_next, last, usage_call, daemonVars, envVars>>

\* a comparison of the permission mode alone
FingerprintChanged_ModeOnly(current_permission_mode, current_model, access_mode, model) ==
    UnwrapOr(current_permission_mode, "default") # UnwrapOr(NormalizeMode(access_mode), "default")
FingerprintChanged(current_permission_mode, current_model, access_mode, model) ==
    LET current_mode == UnwrapOr(current_permission_mode, "default")
        requested_mode == UnwrapOr(NormalizeMode(access_mode), "default")
        permission_mode_changed == current_mode # requested_mode
        model_changed == current_model # RequestedModel(model)
    IN  permission_mode_changed \/ model_changed

\* Reads the stored model and decides: restart, or reuse and return a new turn id.
ReadModel(c) ==
    /\ At(c, "model")
    /\ LET current_model == get_persistent_session_model(persistent_sessions, call[c].thread)
       IN  IF FingerprintChanged(call[c].current_permission_mode, current_model,
                                 call[c].access_mode, call[c].model)
           THEN /\ call' = [call EXCEPT ![c].pc = "kill", ![c].current_model = current_model]
                /\ UNCHANGED <<session_init_lock, uuid_next>>
           ELSE /\ call' = [call EXCEPT ![c].pc = "pending", ![c].current_model = current_model,
                                        ![c].turn_id = uuid_next]
                /\ uuid_next' = uuid_next + 1
                /\ session_init_lock' = 0
    /\ UNCHANGED <<storeVars, stdout, answering, printed, reader, stderr_task, events, last,
                   usage_call, daemonVars, envVars>>

KillOld(c) ==
    /\ At(c, "kill")
    /\ LET r == kill_persistent_session(persistent_sessions, child, call[c].thread)
       IN  /\ persistent_sessions' = r.sessions
           /\ child' = r.child
           /\ IF r.ok
              THEN /\ Goto(c, "spawn")
                   /\ UNCHANGED session_init_lock
              ELSE /\ call' = [call EXCEPT ![c].pc = "done", ![c].ok = FALSE, ![c].err = r.err]
                   /\ session_init_lock' = 0
           /\ last' = [Op("kill_persistent_session", call[c].thread, 0, r.ok, r.err, None, FALSE)
                          EXCEPT !.io = r.io]
    /\ UNCHANGED <<active_turns, stdin, stdout, answering, printed, reader, stderr_task, events,
                   uuid_next, usage_call, daemonVars, envVars>>

\* spawn_persistent_claude_session: command.spawn()
SpawnChild(c) ==
    /\ At(c, "spawn")
    /\ Unspawned(child) # {}
    /\ LET p == FreshProc(child)
       IN  /\ child' = [child EXCEPT ![p] = Spawned(call[c].thread, "persistent")]
           /\ call' = [call EXCEPT ![c].pc = "store", ![c].turn_id = uuid_next,
                                   ![c].spawned = p]
    /\ uuid_next' = uuid_next + 1
    /\ UNCHANGED <<persistent_sessions, active_turns, stdin, session_init_lock, stdout, answering,
                   printed, reader, stderr_task, events, last, usage_call, daemonVars, envVars>>

\* command.spawn() fails: the call returns the error.
SpawnFails(c) ==
    /\ At(c, "spawn")
    /\ call' = [call EXCEPT ![c].pc = "done", ![c].ok = FALSE, ![c].err = "Spawn",
                            ![c].turn_id = uuid_next]
    /\ uuid_next' = uuid_next + 1
    /\ session_init_lock' = 0
    /\ UNCHANGED <<storeVars, stdout, answering, printed, reader, stderr_task, events, last,
                   usage_call, daemonVars, envVars>>

\* set_persistent_session, the two reader tasks are spawned, the lock is released.
StoreSession(c) ==
    /\ At(c, "store")
    /\ LET p == call[c].spawned
       IN  /\ persistent_sessions' =
                 set_persistent_session(persistent_sessions, call[c].thread, p,
                                        NormalizeMode(call[c].access_mode), call[c].model)
           /\ reader' = [reader EXCEPT ![p] = ReaderInit(call[c].turn_id)]
           /\ stderr_task' = [stderr_task EXCEPT ![p] = "running"]
    /\ Goto(c, "pending")
    /\ session_init_lock' = 0
    /\ UNCHANGED <<active_turns, child, stdin, stdout, answering, printed, events, uuid_next,
                   last, usage_call, daemonVars, envVars>>

SetPending(c) ==
    /\ At(c, "pending")
    /\ persistent_sessions' =
          set_pending_turn_id(persistent_sessions, call[c].thread, call[c].turn_id)
    /\ Goto(c, "send")
    /\ UNCHANGED <<active_turns, child, stdin, session_init_lock, stdout, answering, printed,
                   reader, stderr_task, events, uuid_next, last, usage_call, daemonVars, envVars>>

SendMessage(c) ==
    /\ At(c, "send")
    /\ LET r == send_message(persistent_sessions, child, stdin, call[c].thread, c)
       IN  /\ stdin' = r.stdin
           /\ call' = [call EXCEPT ![c].pc = "done", ![c].ok = r.ok, ![c].err = r.err]
    /\ UNCHANGED <<persistent_sessions, active_turns, child, session_init_lock, stdout,
                   answering, printed, reader, stderr_task, events, uuid_next, last, usage_call, daemonVars, envVars>>

\* turn_interrupt -> WorkspaceSession::interrupt_turn
TurnInterrupt(t) ==
    /\ LET r == interrupt_turn(active_turns, persistent_sessions, child, t, 0)
       IN  /\ active_turns' = r.active_turns
           /\ persistent_sessions' = r.sessions
           /\ child' = r.child
    /\ UNCHANGED <<stdin, taskVars, last, usage_call, daemonVars, envVars>>

Init ==
    /\ persistent_sessions = EmptyMap
    /\ active_turns = EmptyMap
    /\ child = [p \in Procs |-> NoChild]
    /\ stdin = [p \in Procs |-> <<>>]
    /\ last = NoOp
    /\ TasksIdle
    /\ usage_call = NoUsageCall
    /\ DaemonIdle
    /\ EnvIdle

Next ==
    \/ \E c \in Callers, t \in CallThreads, a \in CallArgs : Begin(c, t, a)
    \/ \E c \in Callers : AcquireInitLock(c)
    \/ \E c \in Callers : CheckHas(c)
    \/ \E c \in Callers : ReadMode(c)
    \/ \E c \in Callers : ReadModel(c)
    \/ \E c \in Callers : KillOld(c)
    \/ \E c \in Callers : SpawnChild(c)
    \/ \E c \in Callers : SpawnFails(c)
    \/ \E c \in Callers : StoreSession(c)
    \/ \E c \in Callers : SetPending(c)
    \/ \E c \in Callers : SendMessage(c)
    \/ \E t \in CallThreads : TurnInterrupt(t)
    \/ \E p \in Procs : ProcExit(p)
    \/ \E p \in Procs : ProcTake(p)
    \/ \E p \in Procs : ProcAnswer(p)
    \/ \E p \in Procs : ReadStdout(p)
    \/ \E p \in Procs : ReadStdoutEof(p)
    \/ \E p \in Procs : ReadStderrEnd(p)

Spec == Init /\ [][Next]_vars

\* ------------------------------------------------- build_claude_path_env
\* A path string is whether it is absolute and its components: "" is the
\* relative path without components, "/" the absolute one.
PathStr(abs, comps) == [abs |-> abs, comps |-> comps]
Dir(comps) == PathStr(TRUE, comps)
EmptyStr == PathStr(FALSE, <<>>)
\* format!("{home}/..") and Path::join
PathJoin(base, tail) == [base EXCEPT !.comps = base.comps \o tail]
\* Path::parent: none for "/" and for "", "" for a bare file name
PathParent(path) ==
    IF path.comps = <<>> THEN None
    ELSE Some([path EXCEPT !.comps = SubSeq(path.comps, 1, Len(path.comps) - 1)])

FixedDirs ==
    << Dir(<<"opt", "homebrew", "bin">>), Dir(<<"usr", "local", "bin">>), Dir(<<"usr", "bin">>),
       Dir(<<"bin">>), Dir(<<"usr", "sbin">>), Dir(<<"sbin">>) >>
HomeDirs(home) ==
    << PathJoin(home, <<".local", "bin">>), PathJoin(home, <<".local", "share", "mise", "shims">>),
       PathJoin(home, <<".cargo", "bin">>), PathJoin(home, <<".bun", "bin">>) >>
\* the bin directory of each entry of ~/.nvm/versions/node, in read_dir's order
NvmDirs(home, versions) ==
    [i \in 1..Len(versions) |-> PathJoin(home, <<".nvm", "versions", "node", versions[i], "bin">>)]

SeqHas(seq, e) == \E i \in 1..Len(seq) : seq[i] = e
NonEmptyStr(e) == e # EmptyStr
\* env::var("PATH").unwrap_or_default().split(':'): the pieces between colons
SplitPath(path_var) == IF path_var = None THEN <<EmptyStr>> ELSE path_var[1]

\* for extra in extras { if !paths.contains(&extra) { paths.push(extra) } }
RECURSIVE PushExtras(_, _)
PushExtras(paths, extras) ==
    IF extras = <<>> THEN paths
    ELSE PushExtras(IF SeqHas(paths, Head(extras)) THEN paths ELSE Append(paths, Head(extras)),
                    Tail(extras))

\* The argument claude_bin: whether it trims to nothing, and the path it spells.
BinStr(path) == [blank |-> path = EmptyStr, path |-> path]
Spaces == [blank |-> TRUE, path |-> PathStr(FALSE, <<"   ">>)]
BinParent(claude_bin) ==
    IF claude_bin # None /\ ~claude_bin[1].blank /\ PathParent(claude_bin[1].path) # None
    THEN <<PathParent(claude_bin[1].path)[1]>>
    ELSE <<>>
HomeExtras(home, versions) ==
    IF home = None THEN <<>> ELSE HomeDirs(home[1]) \o NvmDirs(home[1], versions)

\* a variant that puts the binary's directory before the fixed ones
build_claude_path_env_ParentBeforeFixed(path_var, home, versions, claude_bin) ==
    LET paths == SelectSeq(SplitPath(path_var), NonEmptyStr)
        all == PushExtras(paths, BinParent(claude_bin) \o FixedDirs \o HomeExtras(home, versions))
    IN  IF all = <<>> THEN None ELSE Some(all)
\* The result is the entries of the joined string.
build_claude_path_env(path_var, home, versions, claude_bin) ==
    LET paths == SelectSeq(SplitPath(path_var), NonEmptyStr)
        all == PushExtras(paths, FixedDirs \o HomeExtras(home, versions) \o BinParent(claude_bin))
    IN  IF all = <<>> THEN None ELSE Some(all)

\* the environments and arguments of the calls
PathEntries ==
    {EmptyStr, Dir(<<"usr", "bin">>), Dir(<<"custom", "path", "to">>),
     Dir(<<"home", "u", ".cargo", "bin">>)}
RECURSIVE SeqsUpTo(_, _)
SeqsUpTo(S, n) ==
    IF n = 0 THEN {<<>>}
    ELSE LET shorter == SeqsUpTo(S, n - 1)
         IN  shorter \cup {Append(q, e) : q \in shorter, e \in S}
PathVars == {None} \cup {Some(q) : q \in SeqsUpTo(PathEntries, MaxPathEntries)}
Homes == {None, Some(Dir(<<"home", "u">>))}
NvmVersions == {<<>>, <<"v20">>}
ClaudeBins ==
    {None, Some(BinStr(EmptyStr)), Some(Spaces),
     Some(BinStr(Dir(<<"custom", "path", "to", "claude">>))),
     Some(BinStr(Dir(<<"usr", "bin", "claude">>))),
     Some(BinStr(PathStr(FALSE, <<"claude">>)))}

PathInit ==
    /\ persistent_sessions = EmptyMap
    /\ active_turns = EmptyMap
    /\ child = [p \in Procs |-> NoChild]
    /\ stdin = [p \in Procs |-> <<>>]
    /\ last = NoOp
    /\ TasksIdle
    /\ usage_call = NoUsageCall
    /\ DaemonIdle
    /\ connected = TRUE
    /\ thread_call = NoThreadCall
    /\ task_lock = NoTaskLock
    /\ \E path_var \in PathVars, home \in Homes, versions \in NvmVersions, bin \in ClaudeBins :
           /\ home = None => versions = <<>>
           /\ path_call = [pc |-> "input", path_var |-> path_var, home |-> home,
                           versions |-> versions, claude_bin |-> bin, out |-> None]

BuildClaudePathEnv ==
    /\ path_call.pc = "input"
    /\ path_call' = [path_call EXCEPT
                        !.pc = "done",
                        !.out = build_claude_path_env(path_call.path_var, path_call.home,
                                                      path_call.versions, path_call.claude_bin)]
    /\ UNCHANGED <<storeVars, taskVars, last, usage_call, daemonVars, connected, thread_call, task_lock>>

PathNext == BuildClaudePathEnv

PathSpec == PathInit /\ [][PathNext]_vars

\* ------------------------------------------------------- workspace removal
\* remove_workspace: every persistent session of the workspace is killed, then
\* the workspace's session is taken out of AppState.sessions.  Calls that
\* cloned the session before keep running on it.
RemoveWorkspace ==
    /\ connected
    /\ LET r == kill_all_persistent_sessions(persistent_sessions, child)
       IN  /\ persistent_sessions' = r.sessions
           /\ child' = r.child
           /\ last' = [Op("kill_all_persistent_sessions", "", 0, r.ok, r.err, None, FALSE)
                          EXCEPT !.io = r.io]
    /\ connected' = FALSE
    /\ UNCHANGED <<active_turns, stdin, taskVars, usage_call, daemonVars, path_call, thread_call, task_lock>>

\* send_user_message calls on a workspace that is removed at any moment
RemovalNext ==
    \/ \E c \in Callers, t \in CallThreads, a \in CallArgs : Begin(c, t, a)
    \/ \E c \in Callers : AcquireInitLock(c)
    \/ \E c \in Callers : CheckHas(c)
    \/ \E c \in Callers : ReadMode(c)
    \/ \E c \in Callers : ReadModel(c)
    \/ \E c \in Callers : KillOld(c)
    \/ \E c \in Callers : SpawnChild(c)
    \/ \E c \in Callers : SpawnFails(c)
    \/ \E c \in Callers : StoreSession(c)
    \/ \E c \in Callers : SetPending(c)
    \/ \E c \in Callers : SendMessage(c)
    \/ \E p \in Procs : ProcExit(p)
    \/ \E p \in Procs : ReadStdoutEof(p)
    \/ \E p \in Procs : ReadStderrEnd(p)
    \/ RemoveWorkspace

RemovalSpec == Init /\ [][RemovalNext]_vars

\* ------------------------------------- run_claude_turn (codex_monitor_daemon)
\* The daemon's own copy of the translator: one process per turn, the turn
\* started before the process is spawned, every tool a commandExecution, no
\* line skipped for its parent_tool_use_id.
DaemonReaderInit(turn_id) ==
    [ReaderInit(turn_id) EXCEPT !.turn_active = TRUE, !.status = "daemon"]

DaemonTurnStart(t, turn_id) ==
    << Event("turn/started", t, turn_id),
       [Event("item/started", t, 0) EXCEPT !.item = AssistantItemId(turn_id),
                                           !.itype = "agentMessage"] >>

RECURSIVE daemon_extract_text_from_content(_)
daemon_extract_text_from_content(content) ==
    IF content = <<>> THEN <<>>
    ELSE (IF Head(content).type = "text" THEN Head(content).text ELSE <<>>)
         \o daemon_extract_text_from_content(Tail(content))

DaemonDelta(full_text, last_text) ==
    IF StartsWith(full_text, last_text)
    THEN SubSeq(full_text, Len(last_text) + 1, Len(full_text))
    ELSE full_text

DaemonAssistantEntry(acc, entry, t) ==
    IF entry.type # "tool_use" THEN acc
    ELSE LET rd == acc.rd
             named == IF entry.id # 0
                      THEN [rd EXCEPT !.tool_names = MapInsert(@, entry.id, entry.name)]
                      ELSE rd
             counted == IF entry.id = 0 THEN [named EXCEPT !.tool_counter = @ + 1] ELSE named
             item_id_tool == IF entry.id = 0
                             THEN ToolItemId(rd.current_turn_id, counted.tool_counter)
                             ELSE RawId(entry.id)
         IN  [rd |-> counted,
              evs |-> Append(acc.evs, [Event("item/started", t, 0) EXCEPT
                                          !.item = item_id_tool,
                                          !.itype = "commandExecution",
                                          !.status = "running"])]

RECURSIVE DaemonAssistantEntries(_, _, _)
DaemonAssistantEntries(acc, content, t) ==
    IF content = <<>> THEN acc
    ELSE DaemonAssistantEntries(DaemonAssistantEntry(acc, Head(content), t), Tail(content), t)

DaemonAssistantLine(rd0, line, t) ==
    LET rd1 == IF line.uuid # 0 THEN [rd0 EXCEPT !.item_id = RawId(line.uuid)] ELSE rd0
        acc == DaemonAssistantEntries([rd |-> rd1, evs |-> <<>>], line.content, t)
        text == daemon_extract_text_from_content(line.content)
        delta == DaemonDelta(text, acc.rd.last_text)
        rd2 == IF text # <<>>
               THEN [acc.rd EXCEPT !.full_text = text,
                                   !.last_text = IF delta # <<>> THEN text ELSE @]
               ELSE acc.rd
        evs2 == IF text # <<>> /\ delta # <<>>
                THEN Append(acc.evs, [Event("item/agentMessage/delta", t, 0) EXCEPT
                                         !.item = acc.rd.item_id, !.text = delta])
                ELSE acc.evs
        rd3 == IF line.usage # None THEN [rd2 EXCEPT !.last_usage = line.usage] ELSE rd2
    IN  [rd |-> rd3, evs |-> evs2]

DaemonUserEntry(acc, entry, t) ==
    IF entry.type # "tool_result" THEN acc
    ELSE LET rd == acc.rd
             tool_use_id == entry.id
             command == IF tool_use_id \in DOMAIN rd.tool_names
                        THEN rd.tool_names[tool_use_id] ELSE "Tool"
             rd1 == IF tool_use_id = 0 THEN [rd EXCEPT !.tool_counter = @ + 1] ELSE rd
             item_id_result == IF tool_use_id = 0
                               THEN ToolResultItemId(rd.current_turn_id, rd1.tool_counter)
                               ELSE RawId(tool_use_id)
         IN  [rd |-> rd1,
              evs |-> Append(acc.evs, [Event("item/completed", t, 0) EXCEPT
                                          !.item = item_id_result,
                                          !.itype = "commandExecution",
                                          !.status = "completed",
                                          !.output = Some(entry.text),
                                          !.outkey = "aggregatedOutput"])]

RECURSIVE DaemonUserEntries(_, _, _)
DaemonUserEntries(acc, content, t) ==
    IF content = <<>> THEN acc
    ELSE DaemonUserEntries(DaemonUserEntry(acc, Head(content), t), Tail(content), t)

\* One iteration of the while-let loop; a read error ends the loop, and the
\* function goes on to wait for the process.
DaemonProcessLine(rd, line, t) ==
    IF line.type = "ioerror" THEN [rd |-> [rd EXCEPT !.status = "daemon_wait"], evs |-> <<>>]
    ELSE IF line.type = "junk" THEN [rd |-> rd, evs |-> <<>>]
    ELSE IF line.type = "assistant" THEN DaemonAssistantLine(rd, line, t)
    ELSE IF line.type = "user" THEN DaemonUserEntries([rd |-> rd, evs |-> <<>>], line.content, t)
    ELSE IF line.type = "result" /\ line.usage # None
         THEN [rd |-> [rd EXCEPT !.last_usage = line.usage], evs |-> <<>>]
    ELSE [rd |-> rd, evs |-> <<>>]

\* After the loop: wait for the process, clear_turn, then the error event or
\* the closing events.
DaemonTurnEnd(rd, t, success) ==
    LET usage == IF rd.last_usage = None THEN None
                 ELSE daemon_format_token_usage(rd.last_usage[1])
    IN  IF ~success
        THEN <<[Event("error", t, rd.current_turn_id) EXCEPT !.status = "failed"]>>
        ELSE (IF usage # None
              THEN <<[Event("thread/tokenUsage/updated", t, 0) EXCEPT !.usage = usage]>>
              ELSE <<>>)
             \o << [Event("item/completed", t, 0) EXCEPT !.item = rd.item_id,
                                                         !.itype = "agentMessage",
                                                         !.text = rd.full_text],
                   Event("turn/completed", t, rd.current_turn_id) >>

DaemonReadStdout(p) ==
    /\ reader[p].status = "daemon"
    /\ stdout[p] # <<>>
    /\ LET r == DaemonProcessLine(reader[p], Head(stdout[p]), child[p].thread)
       IN  /\ reader' = [reader EXCEPT ![p] = r.rd]
           /\ events' = events \o Stamp(r.evs, p, 0)
    /\ stdout' = [stdout EXCEPT ![p] = Tail(@)]
    /\ UNCHANGED <<storeVars, session_init_lock, answering, printed, call, stderr_task,
                   uuid_next, last, usage_call, daemonVars, envVars>>

DaemonFinish(p, success) ==
    /\ ~Live(child, p)
    /\ \/ reader[p].status = "daemon" /\ stdout[p] = <<>>
       \/ reader[p].status = "daemon_wait"
    /\ child' = [child EXCEPT ![p].status = "reaped"]
    /\ active_turns' = clear_turn(active_turns, child[p].thread, reader[p].current_turn_id)
    /\ reader' = [reader EXCEPT ![p].status = "done"]
    /\ events' = events \o Stamp(DaemonTurnEnd(reader[p], child[p].thread, success), p, 0)
    /\ UNCHANGED <<persistent_sessions, stdin, session_init_lock, stdout, answering, printed,
                   call, stderr_task, uuid_next, last, usage_call, daemonVars, envVars>>

\* ------------------------------------------------------ one process's stream
\* A process that prints any lines at all: what the stdout loop makes of them.
\* Texts are sequences of letters: <<1>> "Hello", <<1, 2>> "Hello, world",
\* <<3>> "Hi", <<4>> a tool's output.
UsageObject ==
    Some([is_object |-> TRUE,
          map |-> [k \in {"input_tokens", "output_tokens"} |->
                     IF k = "input_tokens" THEN Num(10) ELSE Num(5)]])
UsageNotObject == Some([is_object |-> FALSE, map |-> EmptyMap])
ModelUsageObject == Some([is_object |-> TRUE, entries |-> <<[contextWindow |-> Some(200)]>>])
Denial(tool_use_id, tool_name) == [tool_use_id |-> tool_use_id, tool_name |-> tool_name]

StreamLines ==
    { Assistant(0, <<TextBlock(<<1>>)>>),
      Assistant(7, <<ToolUse(1, "Bash")>>),
      Assistant(0, <<ToolUse(1, "mcp__srv__tool")>>),
      Assistant(0, <<ToolUse(1, "AskUserQuestion")>>),
      Assistant(0, <<TextBlock(<<1>>), ToolUse(1, "Bash")>>),
      Assistant(0, <<Thinking(<<3>>), ToolUse(0, "Write")>>),
      User(<<ToolResult(1, <<4>>, FALSE, FALSE)>>),
      User(<<ToolResult(1, <<4>>, TRUE, TRUE)>>),
      Result(UsageObject, ModelUsageObject),
      Result(UsageNotObject, None),
      [Result(UsageObject, None) EXCEPT !.denials = <<Denial(1, "Bash")>>],
      [Assistant(0, <<TextBlock(<<3>>)>>) EXCEPT !.parent = TRUE],
      Line("ioerror") }

\* Lines that carry text snapshots, and lines that carry none.
DeltaLines ==
    { Assistant(0, <<TextBlock(<<1>>)>>),
      Assistant(0, <<TextBlock(<<1, 2>>)>>),
      Assistant(0, <<TextBlock(<<3>>)>>),
      Assistant(7, <<TextBlock(<<1>>), ToolUse(1, "Bash"), TextBlock(<<2>>)>>),
      [Assistant(0, <<TextBlock(<<3>>)>>) EXCEPT !.parent = TRUE],
      Result(UsageObject, None),
      [Line("system") EXCEPT !.subtype = "init"],
      Line("junk"),
      Line("ioerror") }

StreamPrint(p, line) ==
    /\ Len(printed[p]) < MaxLines
    /\ WriteStdout(p, line)
    /\ UNCHANGED <<storeVars, session_init_lock, answering, call, reader, stderr_task, events,
                   uuid_next, last, usage_call, daemonVars, envVars>>

StreamIdle ==
    /\ stdin = [p \in Procs |-> <<>>]
    /\ session_init_lock = 0
    /\ stdout = [p \in Procs |-> <<>>]
    /\ answering = [p \in Procs |-> NoAnswer]
    /\ printed = [p \in Procs |-> <<>>]
    /\ uuid_next = 2
    /\ last = NoOp
    /\ usage_call = NoUsageCall
    /\ DaemonIdle
    /\ EnvIdle

\* Thread t1 has a session whose process has just been sent its first message:
\* the state send_user_message leaves behind.
PersistentStreamInit ==
    /\ persistent_sessions =
          set_pending_turn_id(set_persistent_session(EmptyMap, "t1", 1, None, None), "t1", 1)
    /\ active_turns = EmptyMap
    /\ child = [p \in Procs |-> IF p = 1 THEN Spawned("t1", "persistent") ELSE NoChild]
    /\ call = [c \in Callers |->
                 IF c = 1 THEN [NoCall EXCEPT !.pc = "done", !.thread = "t1", !.turn_id = 1,
                                              !.spawned = 1]
                 ELSE NoCall]
    /\ reader = [p \in Procs |-> IF p = 1 THEN ReaderInit(1) ELSE NoReader]
    /\ stderr_task = [p \in Procs |-> IF p = 1 THEN "running" ELSE "none"]
    /\ events = <<>>
    /\ StreamIdle

\* The daemon's run_claude_turn has started a turn on t1: events emitted,
\* process spawned and tracked.
DaemonStreamInit ==
    /\ persistent_sessions = EmptyMap
    /\ active_turns = track_turn(EmptyMap, "t1", 1, 1)
    /\ child = [p \in Procs |-> IF p = 1 THEN Spawned("t1", "turn") ELSE NoChild]
    /\ call = [c \in Callers |-> NoCall]
    /\ reader = [p \in Procs |-> IF p = 1 THEN DaemonReaderInit(1) ELSE NoReader]
    /\ stderr_task = [p \in Procs |-> "none"]
    /\ events = Stamp(DaemonTurnStart("t1", 1), 1, 0)
    /\ StreamIdle

StreamNext ==
    \/ \E p \in Procs, line \in StreamLines : StreamPrint(p, line)
    \/ \E p \in Procs : ProcExit(p)
    \/ \E p \in Procs : ReadStdout(p)
    \/ \E p \in Procs : ReadStdoutEof(p)
    \/ \E p \in Procs : ReadStderrEnd(p)

StreamSpec == PersistentStreamInit /\ [][StreamNext]_vars

\* Text snapshots read by either loop: the persistent session's, or the
\* daemon's per-turn one.
DeltaInit == PersistentStreamInit \/ DaemonStreamInit

DeltaNext ==
    \/ \E p \in Procs, line \in DeltaLines : StreamPrint(p, line)
    \/ \E p \in Procs : ProcExit(p)
    \/ \E p \in Procs : ReadStdout(p)
    \/ \E p \in Procs : ReadStdoutEof(p)
    \/ \E p \in Procs : ReadStderrEnd(p)
    \/ \E p \in Procs : DaemonReadStdout(p)
    \/ \E p \in Procs, success \in BOOLEAN : DaemonFinish(p, success)

DeltaSpec == DeltaInit /\ [][DeltaNext]_vars

\* The same loop with fairness, on a stream of a few kinds of line.  The stdout
\* task is a spawned tokio task: a line or an end of file that is there to be
\* read is read.  Nothing is assumed of the process.
LiveLines ==
    { Assistant(0, <<TextBlock(<<1>>)>>),
      Result(UsageObject, None),
      [Result(UsageObject, None) EXCEPT !.parent = TRUE],
      Line("junk"),
      Line("ioerror") }

LiveStreamNext ==
    \/ \E p \in Procs, line \in LiveLines : StreamPrint(p, line)
    \/ \E p \in Procs : ProcExit(p)
    \/ \E p \in Procs : ReadStdout(p)
    \/ \E p \in Procs : ReadStdoutEof(p)
    \/ \E p \in Procs : ReadStderrEnd(p)

LiveStreamSpec ==
    /\ PersistentStreamInit
    /\ [][LiveStreamNext]_vars
    /\ \A p \in Procs : WF_vars(ReadStdout(p)) /\ WF_vars(ReadStdoutEof(p))

\* The items of a stream: tool uses, each tool-use id naming one tool (1 Bash,
\* 2 an MCP tool, the empty id a Write), their results, permission denials on
\* tool results and on result lines, lines with and without a uuid, and lines
\* that are not JSON.
ItemLines ==
    { Assistant(0, <<TextBlock(<<1>>)>>),
      Assistant(7, <<TextBlock(<<1, 2>>), ToolUse(1, "Bash")>>),
      Assistant(0, <<ToolUse(1, "Bash")>>),
      Assistant(0, <<ToolUse(2, "mcp__srv__tool")>>),
      Assistant(0, <<ToolUse(0, "Write")>>),
      User(<<ToolResult(1, <<4>>, FALSE, FALSE)>>),
      User(<<ToolResult(1, <<4>>, TRUE, TRUE)>>),
      User(<<ToolResult(1, <<4>>, TRUE, FALSE)>>),
      User(<<ToolResult(1, <<4>>, FALSE, TRUE)>>),
      User(<<ToolResult(2, <<4>>, FALSE, FALSE)>>),
      User(<<ToolResult(0, <<4>>, TRUE, TRUE)>>),
      Result(UsageObject, None),
      [Result(UsageObject, None) EXCEPT !.denials = <<Denial(1, "Bash")>>],
      [Result(UsageObject, None) EXCEPT !.denials = <<Denial(0, "Tool"), Denial(0, "")>>],
      [Assistant(0, <<TextBlock(<<3>>), ToolUse(1, "Bash")>>) EXCEPT !.parent = TRUE],
      Line("junk"),
      Line("invalid_utf8") }

\* The agent prints a tool result only for a tool use it has printed.
Answers(lines, line) ==
    \A j \in DOMAIN line.content :
        line.content[j].type = "tool_result" =>
            \E i \in DOMAIN lines : \E k \in DOMAIN lines[i].content :
                /\ lines[i].type = "assistant"
                /\ lines[i].parent = line.parent
                /\ lines[i].content[k].type = "tool_use"
                /\ lines[i].content[k].id = line.content[j].id

ItemPrint(p, line) ==
    /\ Answers(printed[p], line)
    /\ StreamPrint(p, line)

ItemNext ==
    \/ \E p \in Procs, line \in ItemLines : ItemPrint(p, line)
    \/ \E p \in Procs : ProcExit(p)
    \/ \E p \in Procs : ReadStdout(p)
    \/ \E p \in Procs : ReadStdoutEof(p)
    \/ \E p \in Procs : ReadStderrEnd(p)

ItemSpec == PersistentStreamInit /\ [][ItemNext]_vars

\* ------------------------------------------------------ format_token_usage
\* The two copies of format_token_usage called on usage objects of every shape:
\* fields present or not, integers, numeric strings, other values, snake case
\* and camel case keys; and the modelUsage of the same result line.
UsageKeys ==
    {"input_tokens", "output_tokens", "cache_read_input_tokens",
     "cache_creation_input_tokens", "inputTokens"}
UsageValues == {Num(10), Num(5), Num(3), Num(2), Str(7), Bad}
UsageMaps == UNION {[keys -> UsageValues] : keys \in SUBSET UsageKeys}
UsageRaws ==
    {[is_object |-> FALSE, map |-> EmptyMap]} \cup {[is_object |-> TRUE, map |-> m] : m \in UsageMaps}
ModelUsages ==
    { None,
      Some([is_object |-> FALSE, entries |-> <<>>]),
      Some([is_object |-> TRUE, entries |-> <<>>]),
      ModelUsageObject,
      Some([is_object |-> TRUE,
            entries |-> <<[contextWindow |-> None], [contextWindow |-> Some(100)]>>]) }

\* claude.rs: the result branch of read_persistent_stdout
FormatTokenUsage ==
    /\ usage_call.pc = "input"
    /\ usage_call' = [usage_call EXCEPT
                        !.pc = "claude",
                        !.out = format_token_usage(usage_call.raw, usage_call.model_usage)]
    /\ UNCHANGED <<storeVars, taskVars, last, daemonVars, envVars>>

\* codex_monitor_daemon.rs: the end of run_claude_turn, which never looks at
\* the result line's modelUsage
DaemonFormatTokenUsage ==
    /\ usage_call.pc = "input"
    /\ usage_call' = [usage_call EXCEPT
                        !.pc = "daemon",
                        !.out = daemon_format_token_usage(usage_call.raw)]
    /\ UNCHANGED <<storeVars, taskVars, last, daemonVars, envVars>>

UsageInit ==
    /\ persistent_sessions = EmptyMap
    /\ active_turns = EmptyMap
    /\ child = [p \in Procs |-> NoChild]
    /\ stdin = [p \in Procs |-> <<>>]
    /\ last = NoOp
    /\ TasksIdle
    /\ DaemonIdle
    /\ EnvIdle
    /\ \E raw \in UsageRaws, model_usage \in ModelUsages :
           usage_call = [NoUsageCall EXCEPT !.pc = "input", !.raw = raw,
                                            !.model_usage = model_usage]

UsageNext == FormatTokenUsage \/ DaemonFormatTokenUsage

UsageSpec == UsageInit /\ [][UsageNext]_vars

\* --------------------------------------- handle_client (codex_monitor_daemon)
\* A JSON value of a request: null, a string, a number, or an object (a map
\* from keys to values).
JNull == [type |-> "null"]
JString(v) == [type |-> "string", value |-> v]
JObject(map) == [type |-> "object", map |-> map]

\* The token of the model's daemon (--token, DAEMON_TOKEN).
Token == "secret"

\* a parse under which absent params stand for the configured token
parse_auth_token_NullIsToken(params) ==
    IF params.type = "string" THEN Some(params.value)
    ELSE IF params.type = "null" THEN Some(Token)
    ELSE None
parse_auth_token(params) ==
    IF params.type = "string" THEN Some(params.value)
    ELSE IF params.type = "object"
         THEN IF "token" \in DOMAIN params.map /\ params.map["token"].type = "string"
              THEN Some(params.map["token"].value)
              ELSE None
         ELSE None

\* an error response that always carries id 0
build_error_response_IdZero(id, message) ==
    IF id = None THEN None
    ELSE Some([id |-> 0, error |-> [message |-> message]])
build_error_response(id, message) ==
    IF id = None THEN None
    ELSE Some([id |-> Unwrap(id), error |-> [message |-> message]])

build_result_response(id, result) ==
    IF id = None THEN None
    ELSE Some([id |-> Unwrap(id), result |-> result])

build_event_notification(event) == Some([method |-> "app-server-event", params |-> event])

\* The methods the model's requests use: ping succeeds; add_workspace needs a
\* string path in an object and then fails in the handler on a path that
\* is no directory; every other method is unknown.
handle_rpc_request(method, params) ==
    IF method = "ping" THEN [ok |-> TRUE, value |-> "ok"]
    ELSE IF method = "add_workspace"
         THEN IF params.type # "object" THEN [ok |-> FALSE, value |-> "missing path"]
              ELSE IF "path" \notin DOMAIN params.map \/ params.map["path"].type # "string"
                   THEN [ok |-> FALSE, value |-> "missing or invalid path"]
                   ELSE [ok |-> FALSE, value |-> "Workspace path must be a folder."]
         ELSE [ok |-> FALSE, value |-> "unknown method: " \o method]

\* A line of a connection: blank or not JSON ("junk"), or a message with its
\* id (as_u64: absent for a missing, negative or non-numeric id), method and
\* params.  The n-th line of a connection carries id n where it has one.
Request(id, method, params) == [kind |-> "message", id |-> id, method |-> method, params |-> params]
ClientLines(n) ==
    {[NoLine EXCEPT !.kind = "junk"],
     Request(Some(n), "auth", JString(Token)),
     Request(Some(n), "auth", JObject([token |-> JString(Token)])),
     Request(None, "auth", JString(Token)),
     Request(Some(n), "auth", JString("wrong")),
     Request(None, "auth", JString("wrong")),
     Request(Some(n), "auth", JNull),
     Request(Some(n), "ping", JNull),
     Request(None, "ping", JNull),
     Request(Some(n), "nope", JNull),
     Request(Some(n), "add_workspace", JNull),
     Request(Some(n), "add_workspace", JObject([path |-> JString("x")]))}

\* The line carries the configured token, as a bare string or as the string
\* field `token` of an object (history, read off the line itself).
Presents(token, line) ==
    /\ token # None
    /\ line.method = "auth"
    /\ \/ line.params = JString(Unwrap(token))
       \/ /\ line.params.type = "object"
          /\ "token" \in DOMAIN line.params.map
          /\ line.params.map["token"] = JString(Unwrap(token))

\* `let _ = out_tx.send(response)` when there is a response: the line joins the
\* write task's queue, or is dropped when the write task has ended.
\* (Send_First: a send that jumps the queue.)
Send_First(cl, response) ==
    IF response = None \/ ~cl.writer THEN cl ELSE [cl EXCEPT !.out = <<Unwrap(response)>> \o @]
Send(cl, response) ==
    IF response = None \/ ~cl.writer THEN cl ELSE [cl EXCEPT !.out = Append(@, Unwrap(response))]

\* no subscription
Subscribe_Never(cl) == cl
\* events.subscribe() and the forward_events task
Subscribe(cl) == [cl EXCEPT !.events_task = TRUE, !.tasks = @ + 1]

\* One turn of the loop on a line read from the socket.
HandleLine(cl, token, line) ==
    LET got == [cl EXCEPT !.lines = @ + 1, !.line = line,
                          !.presented = @ \/ Presents(token, line)]
    IN  IF line.kind = "junk" THEN got
        ELSE IF ~cl.authenticated
             THEN IF line.method # "auth"
                  THEN Send(got, build_error_response(line.id, "unauthorized"))
                  ELSE LET expected == UnwrapOr(token, "")
                           provided == UnwrapOr(parse_auth_token(line.params), "")
                       IN  IF expected # provided
                           THEN Send(got, build_error_response(line.id, "invalid token"))
                           ELSE Subscribe(Send([got EXCEPT !.authenticated = TRUE],
                                               build_result_response(line.id, "ok")))
             ELSE LET result == handle_rpc_request(line.method, line.params)
                      called == [got EXCEPT !.dispatched = @ + 1]
                  IN  Send(called, IF result.ok
                                   THEN build_result_response(line.id, result.value)
                                   ELSE build_error_response(line.id, result.value))

\* listener.accept() and the start of handle_client
Accept(c) ==
    /\ client[c].status = "none"
    /\ client' = [client EXCEPT ![c] =
                     LET cl == [NoClient EXCEPT !.status = "open",
                                                !.authenticated = (config.token = None)]
                     IN  IF cl.authenticated THEN Subscribe(cl) ELSE cl]
    /\ UNCHANGED <<storeVars, taskVars, last, usage_call, config, envVars>>

ClientLine(c, line) ==
    /\ client[c].status = "open"
    /\ client[c].lines < MaxRequests
    /\ client' = [client EXCEPT ![c] = HandleLine(@, config.token, line)]
    /\ UNCHANGED <<storeVars, taskVars, last, usage_call, config, envVars>>

\* next_line() returns None or an error: the loop ends and the tasks are aborted.
ClientClose(c) ==
    /\ client[c].status = "open"
    /\ client' = [client EXCEPT ![c] = [NoClient EXCEPT !.status = "closed"]]
    /\ UNCHANGED <<storeVars, taskVars, last, usage_call, config, envVars>>

\* broadcast::Sender::send on a channel of Capacity slots: the event takes the
\* slot of the oldest one; a receiver that had not yet received that one has
\* lagged and will be told so.  rx holds the events a receiver can still
\* receive, lagged the number it has missed since it was last told.
BroadcastSend(cl, event) ==
    IF ~cl.events_task THEN cl
    ELSE IF Len(cl.rx) < Capacity
         THEN [cl EXCEPT !.rx = Append(@, event)]
         ELSE [cl EXCEPT !.rx = Append(Tail(@), event), !.lagged = @ + 1]

\* DaemonEventSink: `let _ = self.tx.send(..)`, whatever the receivers.
Publish(max) ==
    /\ Len(events) < max
    /\ LET event == Event("claude/stderr", "t1", Len(events) + 1)
       IN  /\ events' = Append(events, event)
           /\ client' = [c \in Conns |-> BroadcastSend(client[c], event)]
    /\ UNCHANGED <<storeVars, session_init_lock, stdout, answering, printed, call, reader,
                   stderr_task, uuid_next, last, usage_call, config, envVars>>

\* a forwarder that gives up when it has lagged
forward_events_StopOnLag(cl) ==
    IF cl.lagged > 0
    THEN [cl EXCEPT !.lagged = 0, !.rx = <<>>, !.events_task = FALSE]
    ELSE Send([cl EXCEPT !.rx = Tail(@)], build_event_notification(Head(cl.rx)))
\* One turn of the loop of forward_events: recv returns Lagged once after
\* events were missed (continue), else the oldest event, sent on as a notification.
forward_events(cl) ==
    IF cl.lagged > 0
    THEN [cl EXCEPT !.lagged = 0]
    ELSE IF ~cl.writer /\ build_event_notification(Head(cl.rx)) # None
         THEN [cl EXCEPT !.rx = <<>>, !.events_task = FALSE]
         ELSE Send([cl EXCEPT !.rx = Tail(@)], build_event_notification(Head(cl.rx)))

ForwardEvent(c) ==
    /\ client[c].events_task
    /\ client[c].rx # <<>> \/ client[c].lagged > 0
    /\ client' = [client EXCEPT ![c] = forward_events(@)]
    /\ UNCHANGED <<storeVars, taskVars, last, usage_call, config, envVars>>

\* parse_args: a token (trimmed, never empty), or --insecure-no-auth
DaemonInit ==
    /\ persistent_sessions = EmptyMap
    /\ active_turns = EmptyMap
    /\ child = [p \in Procs |-> NoChild]
    /\ stdin = [p \in Procs |-> <<>>]
    /\ last = NoOp
    /\ TasksIdle
    /\ usage_call = NoUsageCall
    /\ config \in {[token |-> None], [token |-> Some(Token)]}
    /\ client = [c \in Conns |-> NoClient]
    /\ EnvIdle

PublishEvent == Publish(MaxPublished)

DaemonNext ==
    \/ \E c \in Conns : Accept(c)
    \/ \E c \in Conns : \E line \in ClientLines(client[c].lines + 1) : ClientLine(c, line)
    \/ \E c \in Conns : ClientClose(c)
    \/ PublishEvent
    \/ \E c \in Conns : ForwardEvent(c)

DaemonSpec == DaemonInit /\ [][DaemonNext]_vars

\* forward_events is a spawned task: the runtime runs it whenever its receiver
\* has an event.
DaemonLiveSpec == DaemonSpec /\ \A c \in Conns : WF_vars(ForwardEvent(c))

\* write_task: the next line of the queue is written to the socket
WriteOut(c) ==
    /\ client[c].status = "open"
    /\ client[c].writer
    /\ client[c].written < Len(client[c].out)
    /\ client' = [client EXCEPT ![c].written = @ + 1]
    /\ UNCHANGED <<storeVars, taskVars, last, usage_call, config, envVars>>

\* write_task: write_all fails, the task ends and drops the queue's receiver
WriteFails(c) ==
    /\ client[c].status = "open"
    /\ client[c].writer
    /\ client[c].written < Len(client[c].out)
    /\ client' = [client EXCEPT ![c].writer = FALSE]
    /\ UNCHANGED <<storeVars, taskVars, last, usage_call, config, envVars>>

\* One connection with its write task; the other one is there to publish to.
WriterLines(n) ==
    {Request(Some(n), "auth", JString(Token)), Request(None, "auth", JString(Token)),
     Request(Some(n), "auth", JString("wrong")), Request(Some(n), "ping", JNull),
     Request(Some(n), "nope", JNull)}

WriterNext ==
    \/ \E c \in Conns : Accept(c)
    \/ \E c \in Conns : \E line \in WriterLines(client[c].lines + 1) : ClientLine(c, line)
    \/ \E c \in Conns : ClientClose(c)
    \/ PublishEvent
    \/ \E c \in Conns : ForwardEvent(c)
    \/ \E c \in Conns : WriteOut(c)
    \/ \E c \in Conns : WriteFails(c)

WriterSpec == DaemonInit /\ [][WriterNext]_vars

\* The daemon's producers publish more events than the channel has slots while
\* connections come, authenticate, forward at their own speed, and go.
BroadcastEvent == Publish(MaxBroadcast)

BroadcastNext ==
    \/ \E c \in Conns : Accept(c)
    \/ \E c \in Conns : ClientLine(c, Request(Some(client[c].lines + 1), "auth", JString(Token)))
    \/ \E c \in Conns : ClientClose(c)
    \/ BroadcastEvent
    \/ \E c \in Conns : ForwardEvent(c)

BroadcastSpec == DaemonInit /\ [][BroadcastNext]_vars

\* ================================================================ claims
HeldBy(p) ==
    \E t \in DOMAIN persistent_sessions :
        persistent_sessions[t].child = p /\ child[p].thread = t
BeingStored(p) ==
    \E c \in Callers : call[c].pc = "store" /\ call[c].spawned = p /\ session_init_lock = c
LivePersistent(t) ==
    {p \in Procs : child[p].kind = "persistent" /\ child[p].thread = t /\ Live(child, p)}

\* C1: whatever the interleaving of ensure_persistent_session calls on one
\* thread, the thread has at most one live persistent process, and every live
\* process is the one its thread's entry of persistent_sessions holds (or the
\* one the call holding the init lock has just spawned and is storing): no
\* process is orphaned.
C1_OneLiveProcessPerThread ==
    \A t \in Threads :
        /\ Cardinality(LivePersistent(t)) <= 1
        /\ \A p \in LivePersistent(t) : HeldBy(p) \/ BeingStored(p)

\* Two calls on the same thread race: one waits for the init lock while the
\* other, holding it, has spawned a process.
C1_Witness ==
    \E c, d \in Callers :
        /\ c # d
        /\ call[c].thread = call[d].thread
        /\ call[c].pc = "lock"
        /\ call[d].pc = "store"
        /\ Live(child, call[d].spawned)

\* C2: the turn id a successful send_user_message returned is the turn id of
\* the turn/started emitted in answer to the message it wrote (stated here
\* only for answers of a process the thread's session still holds, so that no
\* interrupt, kill or restart has come between).
C2_ReturnedTurnIdIsObserved ==
    \A i \in DOMAIN events :
        LET e == events[i]
        IN  (/\ e.method = "turn/started"
             /\ e.msg # 0
             /\ HeldBy(e.proc)
             /\ call[e.msg].pc = "done"
             /\ call[e.msg].ok)
            => e.turn = call[e.msg].turn_id

\* The pending-turn-id slot of thread t, where t has a session.
Slot(ps, t) == ps[t].pending_turn_id

\* C8: take_pending_turn_id returns what the slot holds and empties it;
\* set_pending_turn_id stores its id in the slot of a thread that has a session
\* and changes nothing for a thread without one; a freshly stored session has
\* an empty slot; and no other operation touches the slot of a session that
\* stays.  Hence a take returns the latest set not yet taken, a second take
\* returns none, and of two sets only the last is seen.
C8_PendingTurnIdSlot ==
    [][ LET t == last'.thread
            op == last'.op
        IN  /\ (op = "take_pending_turn_id" /\ t \in DOMAIN persistent_sessions) =>
                   /\ last'.ret = Slot(persistent_sessions, t)
                   /\ t \in DOMAIN persistent_sessions'
                   /\ Slot(persistent_sessions', t) = None
            /\ (op = "take_pending_turn_id" /\ t \notin DOMAIN persistent_sessions) =>
                   /\ last'.ret = None
                   /\ persistent_sessions' = persistent_sessions
            /\ (op = "set_pending_turn_id" /\ t \in DOMAIN persistent_sessions) =>
                   /\ t \in DOMAIN persistent_sessions'
                   /\ Slot(persistent_sessions', t) = Some(last'.turn)
            /\ (op = "set_pending_turn_id" /\ t \notin DOMAIN persistent_sessions) =>
                   persistent_sessions' = persistent_sessions
            /\ op = "set_persistent_session" =>
                   /\ t \in DOMAIN persistent_sessions'
                   /\ Slot(persistent_sessions', t) = None
            /\ \A u \in DOMAIN persistent_sessions \cap DOMAIN persistent_sessions' :
                   Slot(persistent_sessions', u) # Slot(persistent_sessions, u) =>
                       /\ u = t
                       /\ op \in {"take_pending_turn_id", "set_pending_turn_id",
                                  "set_persistent_session"}
      ]_vars

\* A take has just returned an id that had been set, and left the slot empty.
C8_Witness ==
    /\ last.op = "take_pending_turn_id"
    /\ last.ret = Some(MaxApiTurn)
    /\ last.thread \in DOMAIN persistent_sessions
    /\ Slot(persistent_sessions, last.thread) = None

\* C9: no thread has a session at first; the answer of
\* has_persistent_session(t) is whether t has one; and whether t has one
\* changes only by an operation on t itself: set_persistent_session(t) makes it
\* true, a kill or interrupt of t (or kill_all) makes it false.  Operations on
\* other threads never change it.
C9_HasPersistentSession ==
    /\ persistent_sessions = EmptyMap
    /\ [][ LET t == last'.thread
               op == last'.op
           IN  /\ op = "has_persistent_session" =>
                      last'.has = (t \in DOMAIN persistent_sessions)
               /\ op = "set_persistent_session" => t \in DOMAIN persistent_sessions'
               /\ op = "kill_persistent_session" => t \notin DOMAIN persistent_sessions'
               /\ \A u \in Threads :
                      /\ (u \notin DOMAIN persistent_sessions /\ u \in DOMAIN persistent_sessions') =>
                             (op = "set_persistent_session" /\ u = t)
                      /\ (u \in DOMAIN persistent_sessions /\ u \notin DOMAIN persistent_sessions') =>
                             \/ op = "kill_all_persistent_sessions"
                             \/ (op \in {"kill_persistent_session", "interrupt_turn"} /\ u = t)
         ]_vars

\* A thread without a session is asked about while another thread has one.
C9_Witness ==
    /\ last.op = "has_persistent_session"
    /\ ~last.has
    /\ DOMAIN persistent_sessions = Threads \ {last.thread}

\* C10: interrupt_turn on a thread with an entry in active_turns returns
\* success and leaves persistent_sessions as it was; with another turn id it
\* leaves active_turns and every process untouched; with the entry's turn id it
\* removes the entry (and only that one) and the entry's process no longer runs.
C10_InterruptLegacyTurn ==
    [][ LET t == last'.thread
        IN  (last'.op = "interrupt_turn" /\ t \in DOMAIN active_turns) =>
                /\ last'.ok
                /\ persistent_sessions' = persistent_sessions
                /\ IF active_turns[t].turn_id = last'.turn
                   THEN /\ active_turns' = MapRemove(active_turns, t)
                        /\ ~Live(child', active_turns[t].child)
                        /\ \A p \in Procs \ {active_turns[t].child} : child'[p] = child[p]
                   ELSE /\ active_turns' = active_turns
                        /\ child' = child
      ]_vars

\* An interrupt with another turn id has left a running per-turn process and
\* its entry in place, on a thread that also has a persistent session.
C10_Witness ==
    /\ last.op = "interrupt_turn"
    /\ last.ok
    /\ last.thread \in DOMAIN active_turns
    /\ active_turns[last.thread].turn_id # last.turn
    /\ Live(child, active_turns[last.thread].child)
    /\ last.thread \in DOMAIN persistent_sessions

\* C11: interrupt_turn(t, any turn id) on a thread without an entry in
\* active_turns returns success, leaves active_turns and every process input
\* as they were, removes t's session (and no other) and leaves its process not
\* running; where t has no session (never had one, or an earlier interrupt
\* removed it) it returns success and changes nothing.
C11_InterruptPersistentSession ==
    [][ LET t == last'.thread
        IN  (last'.op = "interrupt_turn" /\ t \notin DOMAIN active_turns) =>
                /\ last'.ok
                /\ active_turns' = active_turns
                /\ stdin' = stdin
                /\ IF t \in DOMAIN persistent_sessions
                   THEN /\ persistent_sessions' = MapRemove(persistent_sessions, t)
                        /\ ~Live(child', persistent_sessions[t].child)
                        /\ \A p \in Procs \ {persistent_sessions[t].child} : child'[p] = child[p]
                   ELSE /\ persistent_sessions' = persistent_sessions
                        /\ child' = child
      ]_vars

\* An interrupt with the largest turn id has succeeded on a thread whose
\* session an earlier interrupt or kill had already removed (its process was
\* killed), while the other thread keeps its session and running process.
C11_Witness ==
    /\ last.op = "interrupt_turn"
    /\ last.turn = MaxApiTurn
    /\ last.ok
    /\ last.thread \notin DOMAIN active_turns
    /\ last.thread \notin DOMAIN persistent_sessions
    /\ last.io = <<"lock active_turns", "unlock active_turns",
                   "lock persistent_sessions", "unlock persistent_sessions">>
    /\ \E p \in Procs :
          child[p] = [Spawned(last.thread, "persistent") EXCEPT !.status = "reaped"]
    /\ \E u \in DOMAIN persistent_sessions : Live(child, persistent_sessions[u].child)

\* What a send operation writes: send_message a user message, send_response a
\* tool_result message.
SentLine(op) == IF op = "send_message" THEN StdinUser(0) ELSE StdinResponse

\* C14 as stated: a send to a thread that has a session writes one line to
\* that thread's process, whatever the state of the process.
C14_SendNeedsSession_AsStated ==
    [][ LET t == last'.thread
        IN  (last'.op \in {"send_message", "send_response"} /\ t \in DOMAIN persistent_sessions) =>
                /\ last'.ok
                /\ stdin' = [stdin EXCEPT ![persistent_sessions[t].child] =
                                              Append(@, SentLine(last'.op))]
      ]_vars

\* C14: send_message and send_response for a thread without a session return
\* the no-session error, write to no process and leave the store and every
\* process as they were; for a thread whose session's process is running they
\* succeed and append exactly one line to that process's input and to no
\* other's; for a thread whose session's process has ended they return the
\* write's error and write nothing.  The store is unchanged in every case.
C14_SendNeedsSession ==
    [][ LET t == last'.thread
        IN  last'.op \in {"send_message", "send_response"} =>
                /\ persistent_sessions' = persistent_sessions
                /\ active_turns' = active_turns
                /\ child' = child
                /\ t \notin DOMAIN persistent_sessions =>
                       /\ ~last'.ok
                       /\ last'.err = "NoSession"
                       /\ stdin' = stdin
                /\ (t \in DOMAIN persistent_sessions /\ Live(child, persistent_sessions[t].child)) =>
                       /\ last'.ok
                       /\ stdin' = [stdin EXCEPT ![persistent_sessions[t].child] =
                                                     Append(@, SentLine(last'.op))]
                /\ (t \in DOMAIN persistent_sessions /\ ~Live(child, persistent_sessions[t].child)) =>
                       /\ ~last'.ok
                       /\ last'.err # "NoSession"
                       /\ stdin' = stdin
      ]_vars

\* A response has been written to the process of one thread while the other
\* thread's session, with a running process, received nothing.
C14_Witness ==
    /\ last.op = "send_response"
    /\ last.ok
    /\ DOMAIN persistent_sessions = Threads
    /\ \A u \in Threads : Live(child, persistent_sessions[u].child)
    /\ stdin[persistent_sessions[last.thread].child] = <<StdinResponse>>
    /\ \A u \in Threads \ {last.thread} : stdin[persistent_sessions[u].child] = <<>>

Kills == {"kill", "kill failed"}
Count(io, evs) == Cardinality({i \in DOMAIN io : io[i] \in evs})

\* C18: kill_persistent_session, kill_all_persistent_sessions and
\* interrupt_turn never return an error to the caller, in particular not when
\* the kill fails on a process whose exit has already been observed; each
\* session they remove is flushed once and killed once, the flush immediately
\* before the kill; the only kill without a flush is that of a per-turn
\* process, which has no input handle.
C18_TerminationFlushesAndTolerates ==
    [][ LET io == last'.io
            removed == DOMAIN persistent_sessions \ DOMAIN persistent_sessions'
            legacy == last'.op = "interrupt_turn" /\ last'.thread \in DOMAIN active_turns
        IN  last'.op \in {"kill_persistent_session", "kill_all_persistent_sessions",
                          "interrupt_turn"} =>
                /\ last'.ok
                /\ last'.err = ""
                /\ Count(io, {"flush"}) = Cardinality(removed)
                /\ Count(io, Kills) = Cardinality(removed)
                                      + (IF legacy /\ active_turns' # active_turns THEN 1 ELSE 0)
                /\ \A i \in DOMAIN io :
                      /\ io[i] = "flush" => (i < Len(io) /\ io[i + 1] \in Kills)
                      /\ (io[i] \in Kills /\ ~legacy) => (i > 1 /\ io[i - 1] = "flush")
      ]_vars

\* An interrupt of a per-turn process that had exited and been waited for:
\* the kill failed and the interrupt returned success.
C18_Witness ==
    /\ last.op = "interrupt_turn"
    /\ last.ok
    /\ last.io = <<"lock active_turns", "kill failed", "unlock active_turns">>
    /\ last.thread \notin DOMAIN active_turns

\* A mutex is held at position i of a trace: locked before i and not yet
\* unlocked.
HeldAt(io, i, mutex) ==
    \E j \in 1..(i - 1) :
        /\ io[j] = "lock " \o mutex
        /\ \A k \in (j + 1)..(i - 1) : io[k] # "unlock " \o mutex

\* C19: no store operation awaits process I/O (a write, a flush, a kill) while
\* it holds the persistent_sessions mutex or the active_turns mutex.
C19_NoLockAcrossProcessIO ==
    [][ \A i \in DOMAIN last'.io :
            last'.io[i] \in {"write", "flush"} \cup Kills =>
                /\ ~HeldAt(last'.io, i, "persistent_sessions")
                /\ ~HeldAt(last'.io, i, "active_turns")
      ]_vars

\* ------------------------------------------------ ensure_persistent_session
\* The calls that spawned process p: their arguments are what p's session was
\* started with.
StartedBy(p) == {d \in Callers : call[d].spawned = p}
\* Call c takes the step of ensure_persistent_session that leaves position pc.
Leaves(c, pc) == call[c].pc = pc /\ call'[c].pc # pc

\* C15: a call that finds the thread's session, started with the very model
\* and access mode the call passes, returns a fresh turn id and leaves the
\* store, every process and every reader task as they were.
C15_SameFingerprintReuses ==
    [][ \A c \in Callers :
            LET t == call[c].thread
            IN  (/\ Leaves(c, "model")
                 /\ t \in DOMAIN persistent_sessions
                 /\ \E d \in StartedBy(persistent_sessions[t].child) :
                       /\ call[d].model = call[c].model
                       /\ call[d].access_mode = call[c].access_mode)
                => /\ call'[c].pc = "pending"
                   /\ call'[c].turn_id = uuid_next
                   /\ \A d \in Callers \ {c} : call[d].turn_id # uuid_next
                   /\ persistent_sessions' = persistent_sessions
                   /\ child' = child
                   /\ reader' = reader
                   /\ stderr_task' = stderr_task
      ]_vars

\* The stored fingerprint differs from the request, read literally: the
\* normalized access mode is not the stored mode, or the model passed is not
\* the stored model.
DiffersAsStated(s, c) ==
    \/ NormalizeMode(call[c].access_mode) # s.permission_mode
    \/ call[c].model # s.model
\* The same, an absent permission mode counting as "default" and a blank
\* requested model as absent.
Differs(s, c) ==
    \/ UnwrapOr(NormalizeMode(call[c].access_mode), "default") # UnwrapOr(s.permission_mode, "default")
    \/ (IF call[c].model = Some("") THEN None ELSE call[c].model) # s.model

\* The steps of a restart: the old session is flushed, killed and removed
\* before anything is spawned; the spawn finds the thread without session or
\* running process; the store then holds the new process, running and the
\* thread's only one, under the requested fingerprint; the turn id is new.
RestartSteps(c) ==
    LET t == call[c].thread
    IN  /\ (Leaves(c, "kill") /\ t \in DOMAIN persistent_sessions) =>
               /\ last'.io = <<"lock persistent_sessions", "flush", "kill",
                               "unlock persistent_sessions">>
               /\ persistent_sessions' = MapRemove(persistent_sessions, t)
               /\ ~Live(child', persistent_sessions[t].child)
               /\ call'[c].pc = "spawn"
               /\ call'[c].spawned = 0
        /\ (Leaves(c, "spawn") /\ call'[c].pc = "store") =>
               /\ t \notin DOMAIN persistent_sessions
               /\ LivePersistent(t) = {}
               /\ call'[c].turn_id = uuid_next
               /\ \A d \in Callers \ {c} : call[d].turn_id # uuid_next
        /\ Leaves(c, "store") =>
               /\ call'[c].pc = "pending"
               /\ persistent_sessions' =
                     MapInsert(persistent_sessions, t,
                               [child |-> call[c].spawned,
                                pending_turn_id |-> None,
                                permission_mode |-> NormalizeMode(call[c].access_mode),
                                model |-> call[c].model])
               /\ LivePersistent(t) \subseteq {call[c].spawned}

\* C16 as stated: whenever the stored fingerprint differs from the request,
\* read literally, the session is restarted.
C16_ChangedFingerprintRestarts_AsStated ==
    [][ \A c \in Callers :
            LET t == call[c].thread
            IN  /\ (/\ Leaves(c, "model")
                    /\ t \in DOMAIN persistent_sessions
                    /\ DiffersAsStated(persistent_sessions[t], c)) => call'[c].pc = "kill"
                /\ RestartSteps(c)
      ]_vars

\* C16: a call that finds the thread's session with a fingerprint that differs
\* from the request (an absent mode counting as "default", a blank requested
\* model as absent) restarts it, by the steps above.
C16_ChangedFingerprintRestarts ==
    [][ \A c \in Callers :
            LET t == call[c].thread
            IN  /\ (/\ Leaves(c, "model")
                    /\ t \in DOMAIN persistent_sessions
                    /\ Differs(persistent_sessions[t], c)) => call'[c].pc = "kill"
                /\ RestartSteps(c)
      ]_vars

\* A call with access mode read-only has replaced the session another call
\* had started: the old process was killed, the new one runs and is stored
\* under permission mode "plan", and the call has its own turn id.
C16_Witness ==
    \E c, d \in Callers :
        LET t == call[c].thread
        IN  /\ c # d
            /\ call[c].pc = "pending"
            /\ call[c].access_mode = Some("read-only")
            /\ call[d].thread = t
            /\ call[d].spawned # 0
            /\ child[call[d].spawned].status = "reaped"
            /\ t \in DOMAIN persistent_sessions
            /\ persistent_sessions[t].child = call[c].spawned
            /\ persistent_sessions[t].permission_mode = Some("plan")
            /\ Live(child, call[c].spawned)
            /\ call[c].turn_id # call[d].turn_id

\* C17: a thread's entry leaves persistent_sessions only by an interrupt of
\* that thread, by the kill of a restart on that thread, or by the end of the
\* stderr stream of the process the entry holds.
C17_EntryRemovedOnlyByItsOwnProcess ==
    [][ \A t \in DOMAIN persistent_sessions :
            t \notin DOMAIN persistent_sessions' =>
                \/ TurnInterrupt(t)
                \/ \E c \in Callers : call[c].thread = t /\ KillOld(c)
                \/ ReadStderrEnd(persistent_sessions[t].child)
      ]_vars

\* ----------------------------------------------------------- event streams
EventsOf(p) == SelectSeq(events, LAMBDA e : e.proc = p)
TurnMarks(p) ==
    SelectSeq(events, LAMBDA e : e.proc = p /\ e.method \in {"turn/started", "turn/completed"})
IsPersistent(p) == child[p].kind = "persistent"
StreamTurnIds == 1..(MaxLines + 1)
TurnStarted(p, id) ==
    \E i \in DOMAIN events :
        events[i].proc = p /\ events[i].method = "turn/started" /\ events[i].turn = id
TurnCompletions(p, id) ==
    Len(SelectSeq(events, LAMBDA e : e.proc = p /\ e.method = "turn/completed" /\ e.turn = id))

\* C3: the turn/started and turn/completed events of one persistent process
\* alternate, beginning with turn/started, and each turn/completed carries the
\* turn id of the turn/started before it.
C3_TurnsAlternate ==
    \A p \in Procs :
        IsPersistent(p) =>
            LET m == TurnMarks(p)
            IN  \A i \in DOMAIN m :
                    IF i % 2 = 1
                    THEN m[i].method = "turn/started"
                    ELSE m[i].method = "turn/completed" /\ m[i].turn = m[i - 1].turn

\* A process has gone through two turns, both closed.
C3_Witness ==
    \E p \in Procs : IsPersistent(p) /\ Len(TurnMarks(p)) = 4

\* The stream holds something that ends the turn: an unread result line or a
\* read error, or the process is gone (end of file follows).
TurnEndInSight(p) ==
    \/ ~Live(child, p)
    \/ \E i \in DOMAIN stdout[p] :
           \/ stdout[p][i].type = "ioerror"
           \/ stdout[p][i].type = "result" /\ ~stdout[p][i].parent

\* A turn of p has been started and not completed.
TurnOpen(p) ==
    \E id \in StreamTurnIds : TurnStarted(p, id) /\ TurnCompletions(p, id) = 0

\* C4: a turn the stdout loop of a persistent process has started is completed
\* exactly once with the same id: never twice, never without its start; it is
\* completed once a result line, a read error or the end of the stream is
\* there to be read; when the loop has ended no started turn is left open, and
\* the ended loop emits nothing more.
C4_TurnCompletedOnce ==
    /\ [](\A p \in Procs, id \in StreamTurnIds :
             IsPersistent(p) =>
                 /\ TurnCompletions(p, id) <= 1
                 /\ TurnCompletions(p, id) = 1 => TurnStarted(p, id)
                 /\ (reader[p].status = "done" /\ TurnStarted(p, id)) =>
                        TurnCompletions(p, id) = 1)
    /\ [][\A p \in Procs :
             (IsPersistent(p) /\ reader[p].status = "done") => EventsOf(p)' = EventsOf(p)]_vars
    /\ \A p \in Procs :
           (IsPersistent(p) /\ TurnOpen(p) /\ TurnEndInSight(p)) ~> ~TurnOpen(p)

\* The stream ended in the middle of a turn that no result line had closed: the
\* loop has completed the turn itself and ended.
C4_Witness ==
    \E p \in Procs :
        /\ IsPersistent(p)
        /\ reader[p].status = "done"
        /\ \A i \in DOMAIN printed[p] : printed[p][i].type \notin {"result", "ioerror"}
        /\ Len(TurnMarks(p)) = 2

RECURSIVE TextOf(_)
TextOf(content) ==
    IF content = <<>> THEN <<>>
    ELSE (IF Head(content).type = "text" THEN Head(content).text ELSE <<>>)
         \o TextOf(Tail(content))

\* The seven events of the tool scenario, for tool-use id tool_id and the
\* assistant's final text.
ToolScenarioEvents(evs, tool_id, final_text) ==
    /\ Len(evs) = 7
    /\ evs[1].method = "turn/started"
    /\ evs[2].method = "item/started" /\ evs[2].itype = "agentMessage" /\ evs[2].text = <<>>
    /\ evs[3].method = "item/started" /\ evs[3].itype = "commandExecution"
    /\ evs[3].item = RawId(tool_id)
    /\ evs[4].method = "item/completed" /\ evs[4].itype = "commandExecution"
    /\ evs[4].item = evs[3].item
    /\ evs[4].outkey = "aggregatedOutput" /\ IsSome(evs[4].output)
    /\ evs[5].method = "thread/tokenUsage/updated" /\ IsSome(evs[5].usage)
    /\ evs[6].method = "item/completed" /\ evs[6].itype = "agentMessage"
    /\ evs[6].text = final_text
    /\ evs[7].method = "turn/completed" /\ evs[7].turn = evs[1].turn

\* The process has printed exactly three lines, assistant, user, result, and
\* the loop has read them all.
ThreeLinesRead(p) ==
    /\ IsPersistent(p)
    /\ reader[p].status = "running"
    /\ stdout[p] = <<>>
    /\ Len(printed[p]) = 3
    /\ printed[p][1].type = "assistant"
    /\ printed[p][2].type = "user"
    /\ printed[p][3].type = "result"

HasToolResult(line, tool_id) ==
    \E j \in DOMAIN line.content :
        line.content[j].type = "tool_result" /\ line.content[j].id = tool_id

\* C5 as stated: an assistant line containing a tool_use block with a non-empty
\* id, a user line with the matching tool_result, a result line with usage:
\* exactly the seven events, in order.
C5_ToolScenario_AsStated ==
    \A p \in Procs :
        ThreeLinesRead(p) =>
            \A i \in DOMAIN printed[p][1].content :
                LET block == printed[p][1].content[i]
                IN  (/\ block.type = "tool_use"
                     /\ block.id # 0
                     /\ HasToolResult(printed[p][2], block.id)
                     /\ printed[p][3].usage # None)
                    => ToolScenarioEvents(EventsOf(p), block.id,
                                          TextOf(printed[p][1].content))

OtherItemTools ==
    {"mcp__srv__tool", "WebSearch", "Write", "Edit", "MultiEdit", "NotebookEdit",
     "AskUserQuestion"}

\* C5 amended: the assistant line is the process's own (no parent tool use) and
\* its only block is a tool_use with a non-empty id of a tool that is neither
\* an MCP tool, nor web search, nor a file-editing tool, nor AskUserQuestion;
\* the user line's only block is the matching tool_result and is not a
\* permission denial; the result line's usage is a JSON object and it reports
\* no permission denial.  Then the events are exactly the seven, in order.
C5_ToolScenario ==
    \A p \in Procs :
        ThreeLinesRead(p) =>
            LET a == printed[p][1]
                u == printed[p][2]
                r == printed[p][3]
            IN  (/\ ~a.parent /\ ~u.parent /\ ~r.parent
                 /\ Len(a.content) = 1
                 /\ a.content[1].type = "tool_use"
                 /\ a.content[1].id # 0
                 /\ a.content[1].name \notin OtherItemTools
                 /\ Len(u.content) = 1
                 /\ u.content[1].type = "tool_result"
                 /\ u.content[1].id = a.content[1].id
                 /\ ~(u.content[1].is_error /\ u.content[1].denial)
                 /\ r.usage # None
                 /\ r.usage[1].is_object
                 /\ r.denials = <<>>)
                => ToolScenarioEvents(EventsOf(p), a.content[1].id, <<>>)

\* The scenario has been played: a Bash tool use, its result, a result line
\* with a usage object, all read.
C5_Witness ==
    \E p \in Procs :
        /\ ThreeLinesRead(p)
        /\ printed[p][1] = Assistant(7, <<ToolUse(1, "Bash")>>)
        /\ printed[p][2] = User(<<ToolResult(1, <<4>>, FALSE, FALSE)>>)
        /\ printed[p][3] = Result(UsageObject, ModelUsageObject)
        /\ Len(EventsOf(p)) = 7

\* The lines of p the loop has read.
Processed(p) == SubSeq(printed[p], 1, Len(printed[p]) - Len(stdout[p]))

\* The snapshot a line carries for the loop of a persistent process (which
\* drops a subagent's lines) or of a per-turn process.
SnapshotOf(line, persistent) ==
    IF line.type = "assistant" /\ ~(persistent /\ line.parent)
    THEN TextOf(line.content) ELSE <<>>

\* The last non-empty snapshot of the turn so far.  A result line ends the turn
\* of a persistent process; a per-turn process has one turn.
RECURSIVE PreviousSnapshot(_, _)
PreviousSnapshot(lines, persistent) ==
    IF lines = <<>> THEN <<>>
    ELSE LET line == lines[Len(lines)]
             before == SubSeq(lines, 1, Len(lines) - 1)
         IN  IF persistent /\ line.type = "result" /\ ~line.parent THEN <<>>
             ELSE IF SnapshotOf(line, persistent) # <<>> THEN SnapshotOf(line, persistent)
             ELSE PreviousSnapshot(before, persistent)

\* C6: when the loop reads a line carrying a non-empty snapshot, the delta is
\* the part of the snapshot after the previous snapshot of the turn when the
\* snapshot begins with it, and the whole snapshot otherwise; one
\* item/agentMessage/delta with that text is emitted when it is not empty, and
\* none otherwise.  The same for the per-turn loop of the daemon.
C6_DeltaReconstruction ==
    [][ \A p \in Procs :
          (/\ reader[p].status \in {"running", "daemon"}
           /\ stdout[p] # <<>>
           /\ stdout'[p] = Tail(stdout[p])) =>
              LET persistent == IsPersistent(p)
                  snapshot == SnapshotOf(Head(stdout[p]), persistent)
                  previous == PreviousSnapshot(Processed(p), persistent)
                  extends == /\ Len(previous) <= Len(snapshot)
                             /\ \A i \in DOMAIN previous : snapshot[i] = previous[i]
                  expected == IF extends
                              THEN [i \in 1..(Len(snapshot) - Len(previous)) |->
                                       snapshot[Len(previous) + i]]
                              ELSE snapshot
                  emitted == SubSeq(events', Len(events) + 1, Len(events'))
                  deltas == SelectSeq(emitted, LAMBDA e : e.method = "item/agentMessage/delta")
              IN  IF expected # <<>>
                  THEN Len(deltas) = 1 /\ deltas[1].text = expected /\ deltas[1].proc = p
                  ELSE deltas = <<>>
      ]_vars

DeltasOf(p) == SelectSeq(events, LAMBDA e : e.proc = p /\ e.method = "item/agentMessage/delta")

\* "Hello", "Hello, world", "Hi" in one turn: the deltas "Hello", ", world", "Hi".
C6_Witness ==
    \E p \in Procs :
        /\ IsPersistent(p)
        /\ Len(DeltasOf(p)) = 3
        /\ DeltasOf(p)[1].text = <<1>>
        /\ DeltasOf(p)[2].text = <<2>>
        /\ DeltasOf(p)[3].text = <<3>>

\* The usage object's fields are integers under the snake case names.
PlainUsage(map) ==
    /\ DOMAIN map \subseteq {"input_tokens", "output_tokens", "cache_read_input_tokens",
                             "cache_creation_input_tokens"}
    /\ \A k \in DOMAIN map : map[k].k = "int"
FieldOrZero(map, key) == IF key \in DOMAIN map THEN map[key].n ELSE 0
HasFirstContextWindow(model_usage) ==
    /\ model_usage # None
    /\ model_usage[1].is_object
    /\ model_usage[1].entries # <<>>
    /\ model_usage[1].entries[1].contextWindow # None

\* C7: for a usage object, format_token_usage (either copy) reports
\* cachedInputTokens = cache_read_input_tokens + cache_creation_input_tokens and
\* totalTokens = input_tokens + output_tokens + cachedInputTokens, absent fields
\* counting as 0, the same figures under total and last, and modelContextWindow
\* taken from the first entry of the result's per-model usage map.
C7_TokenUsage ==
    (/\ usage_call.pc \in {"claude", "daemon"}
     /\ usage_call.raw.is_object
     /\ PlainUsage(usage_call.raw.map))
    => /\ usage_call.out # None
       /\ LET out == usage_call.out[1]
              map == usage_call.raw.map
              cached == FieldOrZero(map, "cache_read_input_tokens")
                          + FieldOrZero(map, "cache_creation_input_tokens")
          IN  /\ out.total.cachedInputTokens = cached
              /\ out.total.totalTokens =
                     FieldOrZero(map, "input_tokens") + FieldOrZero(map, "output_tokens") + cached
              /\ out.last = out.total
              /\ HasFirstContextWindow(usage_call.model_usage) =>
                     /\ "modelContextWindow" \in DOMAIN out
                     /\ out.modelContextWindow =
                            usage_call.model_usage[1].entries[1].contextWindow

\* The daemon's copy has formatted the usage of a result line that names a
\* model's context window, and its answer has no modelContextWindow.
C7_Witness ==
    /\ usage_call.pc = "daemon"
    /\ usage_call.model_usage = ModelUsageObject
    /\ usage_call.out # None
    /\ "modelContextWindow" \notin DOMAIN usage_call.out[1]
    /\ usage_call.out[1].total.totalTokens = 20
    /\ usage_call.out[1].total.cachedInputTokens = 5

\* --------------------------------------------------------------- handle_client
\* The step is one turn of connection c's loop on a line read from the socket.
LineStep(c) ==
    /\ client[c].status = "open"
    /\ client'[c].lines = client[c].lines + 1
\* The step is forward_events sending on the oldest event of c's queue.
ForwardStep(c) ==
    /\ client[c].status = "open"
    /\ client'[c].status = "open"
    /\ Len(client'[c].rx) < Len(client[c].rx)
Sent(c) == SubSeq(client'[c].out, Len(client[c].out) + 1, Len(client'[c].out))
ErrorTo(id, message) == [id |-> id, error |-> [message |-> message]]
ResultTo(id, result) == [id |-> id, result |-> result]
Notification(event) == [method |-> "app-server-event", params |-> event]

AuthHandshakeSteps ==
    [][/\ \A c \in Conns :
             (LineStep(c) /\ config.token # None /\ ~client[c].authenticated) =>
                 LET line == client'[c].line
                 IN  /\ (line.kind = "message" /\ line.method # "auth") =>
                            /\ Sent(c) = IF line.id = None THEN <<>>
                                         ELSE <<ErrorTo(line.id[1], "unauthorized")>>
                            /\ ~client'[c].authenticated
                            /\ ~client'[c].events_task
                            /\ client'[c].rx = <<>>
                     /\ Presents(config.token, line) =>
                            /\ client'[c].authenticated
                            /\ client'[c].events_task
                            /\ Sent(c) = IF line.id = None THEN <<>>
                                         ELSE <<ResultTo(line.id[1], "ok")>>
       /\ \A c \in Conns :
             (/\ events' # events
              /\ client[c].status = "open"
              /\ client[c].authenticated)
             => /\ client'[c].rx # <<>>
                /\ client'[c].rx[Len(client'[c].rx)] = events'[Len(events')]
                /\ client'[c].authenticated
       /\ \A c \in Conns :
             ForwardStep(c) =>
                 /\ client'[c].rx = Tail(client[c].rx)
                 /\ Sent(c) = <<Notification(Head(client[c].rx))>>]_vars

NoEventForwarded(c) ==
    \A i \in 1..Len(client[c].out) : "method" \notin DOMAIN client[c].out[i]
Unserved(c) ==
    (config.token # None /\ ~client[c].presented) =>
        /\ ~client[c].authenticated
        /\ client[c].dispatched = 0
        /\ ~client[c].events_task
        /\ client[c].rx = <<>>
        /\ NoEventForwarded(c)

\* C13, as stated: with a token configured, every auth request with a wrong or
\* missing token is answered by an invalid-token error.
C13_NoServiceWithoutToken_AsStated ==
    [][\A c \in Conns :
          (/\ LineStep(c)
           /\ config.token # None
           /\ ~client[c].authenticated
           /\ client'[c].line.kind = "message"
           /\ client'[c].line.method = "auth"
           /\ ~Presents(config.token, client'[c].line))
          => /\ Len(Sent(c)) = 1
             /\ "error" \in DOMAIN Sent(c)[1]
             /\ Sent(c)[1].error.message = "invalid token"]_vars

\* C13: with a token configured, an auth request with a wrong or missing token
\* leaves the connection unauthenticated and is answered by one invalid-token
\* error carrying the request's id when the request has an unsigned-integer id
\* and by nothing when it has none; in every reachable state a connection that
\* has not presented the configured token is unauthenticated, has had no RPC
\* method dispatched, is not subscribed, has no event queued and has been sent
\* no notification, however many lines it has sent.
C13_NoServiceWithoutToken ==
    [][\A c \in Conns :
          /\ Unserved(c)
          /\ Unserved(c)'
          /\ (/\ LineStep(c)
              /\ config.token # None
              /\ ~client[c].authenticated
              /\ client'[c].line.kind = "message"
              /\ client'[c].line.method = "auth"
              /\ ~Presents(config.token, client'[c].line))
             => /\ ~client'[c].authenticated
                /\ Sent(c) = IF client'[c].line.id = None THEN <<>>
                             ELSE <<ErrorTo(client'[c].line.id[1], "invalid token")>>]_vars

\* A connection has sent all its lines without the token, the last an auth
\* request with no token, and holds two errors, while the other connection
\* has authenticated and has been forwarded an event.
C13_Witness ==
    /\ config.token # None
    /\ \E c, d \in Conns :
           /\ c # d
           /\ client[c].status = "open"
           /\ client[c].lines = MaxRequests
           /\ ~client[c].presented
           /\ client[c].line = Request(Some(MaxRequests), "auth", JNull)
           /\ Len(client[c].out) = MaxRequests
           /\ client[c].out[MaxRequests] = ErrorTo(MaxRequests, "invalid token")
           /\ client[d].authenticated
           /\ ~NoEventForwarded(d)

\* C20, as stated: every request on an authenticated connection is answered by
\* exactly one response, an error when its handling fails and a result when it
\* succeeds, and the connection stays open.
C20_OneResponsePerRequest_AsStated ==
    [][\A c \in Conns :
          (/\ LineStep(c)
           /\ client[c].authenticated
           /\ client'[c].line.kind = "message")
          => /\ Len(Sent(c)) = 1
             /\ client'[c].status = "open"]_vars

\* C20: a request on an authenticated connection is dispatched once; when it
\* has an unsigned-integer id it is answered by exactly one response carrying
\* that id, {id, error:{message}} with the handler's message when the handling
\* fails (unknown method, missing or invalid parameter, handler error) and
\* {id, result} when it succeeds; when it has no such id it is answered by
\* nothing; either way the connection stays open and authenticated.
C20_OneResponsePerRequest ==
    [][\A c \in Conns :
          (/\ LineStep(c)
           /\ client[c].authenticated
           /\ client'[c].line.kind = "message")
          => LET line == client'[c].line
                 result == handle_rpc_request(line.method, line.params)
             IN  /\ client'[c].dispatched = client[c].dispatched + 1
                 /\ Sent(c) = IF line.id = None THEN <<>>
                              ELSE IF result.ok
                                   THEN <<ResultTo(line.id[1], result.value)>>
                                   ELSE <<ErrorTo(line.id[1], result.value)>>
                 /\ client'[c].status = "open"
                 /\ client'[c].authenticated]_vars

\* An authenticated connection has had a request fail in its handler and then
\* a ping succeed: it holds the error for the first and the result for the second.
C20_Witness ==
    \E c \in Conns :
        /\ client[c].status = "open"
        /\ client[c].authenticated
        /\ client[c].dispatched = 2
        /\ client[c].out = <<ErrorTo(1, "Workspace path must be a folder."),
                             ResultTo(2, "ok")>>

\* ------------------------------------------------------ items of the stream
\* C22: among the events a persistent process's stdout loop emits, every
\* item/completed is preceded by an item/started with the same item id: for the
\* agent-message item, for a tool item under the agent's tool-use id, and for a
\* tool item under a synthesized id.
C22_StartedBeforeCompleted ==
    \A p \in Procs :
        IsPersistent(p) =>
            LET evs == EventsOf(p)
            IN  \A i \in DOMAIN evs :
                    evs[i].method = "item/completed" =>
                        \E j \in 1..(i - 1) :
                            /\ evs[j].method = "item/started"
                            /\ evs[j].item = evs[i].item

\* The step is the stdout loop of p reading the line at the head of its stream.
ReadStep(p) ==
    /\ reader[p].status = "running"
    /\ stdout[p] # <<>>
    /\ stdout'[p] = Tail(stdout[p])
Emitted == SubSeq(events', Len(events) + 1, Len(events'))
\* Events i and j of evs belong to one turn: no turn/started after i up to j.
SameTurn(evs, i, j) ==
    \A k \in (i + 1)..j : evs[k].method # "turn/started"
ErrorDenials(line) ==
    {line.content[j].id : j \in {k \in DOMAIN line.content :
                                    /\ line.content[k].type = "tool_result"
                                    /\ line.content[k].is_error
                                    /\ line.content[k].denial}}

\* C23: among the events of one turn of a persistent process (from one
\* turn/started to the next), no permission-denial id (the tool-use id, or the
\* id synthesized from thread, tool name and index when the tool-use id is
\* empty) is reported twice, whether in the turn/permissionDenied events of
\* tool results or in the batch of a result line; and a user line's
\* turn/permissionDenied events each report one tool result of the line whose
\* error flag is set and whose text matches the permission-denial phrases.
C23_DenialReportedOnce ==
    /\ [](\A p \in Procs :
             IsPersistent(p) =>
                 LET evs == EventsOf(p)
                 IN  \A i \in DOMAIN evs : \A j \in i..Len(evs) :
                         (/\ evs[i].method = "turn/permissionDenied"
                          /\ evs[j].method = "turn/permissionDenied"
                          /\ SameTurn(evs, i, j))
                         => \A a \in DOMAIN evs[i].denials : \A b \in DOMAIN evs[j].denials :
                                (evs[i].denials[a] = evs[j].denials[b]) => (i = j /\ a = b))
    /\ [][\A p \in Procs :
             (/\ IsPersistent(p)
              /\ ReadStep(p)
              /\ Head(stdout[p]).type = "user")
             => \A i \in DOMAIN Emitted :
                    Emitted[i].method = "turn/permissionDenied" =>
                        /\ ~Head(stdout[p]).parent
                        /\ Len(Emitted[i].denials) = 1
                        /\ Emitted[i].denials[1].raw \in ErrorDenials(Head(stdout[p]))]_vars

\* A tool use was denied on its tool result and named again in the batch of the
\* result line: the turn has one turn/permissionDenied, from the tool result.
C23_Witness ==
    \E p \in Procs :
        /\ IsPersistent(p)
        /\ stdout[p] = <<>>
        /\ printed[p] = << Assistant(0, <<ToolUse(1, "Bash")>>),
                           User(<<ToolResult(1, <<4>>, TRUE, TRUE)>>),
                           [Result(UsageObject, None) EXCEPT !.denials = <<Denial(1, "Bash")>>] >>
        /\ Len(SelectSeq(EventsOf(p), LAMBDA e : e.method = "turn/permissionDenied")) = 1
        /\ reader[p].permission_denial_ids = {DenialId(1, "", 0)}

\* C27: when the stdout loop of a persistent process reads a line that is not
\* valid JSON (blank, not JSON text, not UTF-8 text) or that carries a parent
\* tool use id, it emits no event, its locals (turn state, running text, tool
\* table, counters, denial set) and the store stay as they were, and the loop
\* goes on running.
C27_SkippedLineLeavesNoTrace ==
    [][\A p \in Procs :
          (/\ IsPersistent(p)
           /\ ReadStep(p)
           /\ \/ Head(stdout[p]).type \in {"junk", "invalid_utf8"}
              \/ Head(stdout[p]).parent)
          => /\ Emitted = <<>>
             /\ reader'[p] = reader[p]
             /\ persistent_sessions' = persistent_sessions
             /\ uuid_next' = uuid_next]_vars

\* The item/started events of tool uses with tool-use id r in the turn of p
\* that is under way.
ToolStarts(p, r) ==
    LET evs == EventsOf(p)
    IN  {i \in DOMAIN evs :
            /\ evs[i].method = "item/started"
            /\ evs[i].status = "running"
            /\ evs[i].item = RawId(r)
            /\ SameTurn(evs, i, Len(evs))}

RECURSIVE TurnSnapshots(_)
TurnSnapshots(lines) ==
    IF lines = <<>> THEN <<>>
    ELSE LET line == lines[Len(lines)]
             before == SubSeq(lines, 1, Len(lines) - 1)
         IN  IF line.type = "result" /\ ~line.parent THEN <<>>
             ELSE TurnSnapshots(before)
                    \o (IF SnapshotOf(line, TRUE) # <<>> THEN <<SnapshotOf(line, TRUE)>>
                        ELSE <<>>)
EachExtendsPrevious(snapshots) ==
    \A i \in 2..Len(snapshots) :
        /\ Len(snapshots[i - 1]) <= Len(snapshots[i])
        /\ \A k \in DOMAIN snapshots[i - 1] : snapshots[i][k] = snapshots[i - 1][k]
RECURSIVE Concatenation(_)
Concatenation(texts) ==
    IF texts = <<>> THEN <<>> ELSE Head(texts) \o Concatenation(Tail(texts))
\* The payloads of the deltas p has emitted in the turn under way.
TurnDeltas(p) ==
    LET evs == EventsOf(p)
        at == {i \in DOMAIN evs : /\ evs[i].method = "item/agentMessage/delta"
                                  /\ SameTurn(evs, i, Len(evs))}
        RECURSIVE From(_)
        From(i) == IF i > Len(evs) THEN <<>>
                   ELSE (IF i \in at THEN <<evs[i].text>> ELSE <<>>) \o From(i + 1)
    IN  From(1)

\* C30: when the stdout loop of a persistent process reads a result line in a
\* turn, it emits one item/completed for the agent message whose text is the
\* most recent non-empty snapshot of the turn (empty when the turn had none);
\* and when every snapshot of the turn begins with the one before it, the
\* payloads of the turn's item/agentMessage/delta events, put end to end, are
\* that text.
C30_FinalTextIsLastSnapshot ==
    [][\A p \in Procs :
          (/\ IsPersistent(p)
           /\ ReadStep(p)
           /\ ~Skipped(Head(stdout[p]))
           /\ Head(stdout[p]).type = "result"
           /\ reader[p].turn_active)
          => LET done == SelectSeq(Emitted, LAMBDA e : /\ e.method = "item/completed"
                                                       /\ e.itype = "agentMessage")
                 snapshots == TurnSnapshots(Processed(p))
             IN  /\ Len(done) = 1
                 /\ done[1].text = IF snapshots = <<>> THEN <<>>
                                   ELSE snapshots[Len(snapshots)]
                 /\ done[1].text = PreviousSnapshot(Processed(p), TRUE)
                 /\ EachExtendsPrevious(snapshots) =>
                        Concatenation(TurnDeltas(p)) = done[1].text]_vars

\* "Hello" and then "Hello, world" in one turn, closed by a result line: the
\* deltas are "Hello" and ", world" and the final text is "Hello, world".
C30_Witness ==
    \E p \in Procs :
        /\ IsPersistent(p)
        /\ stdout[p] = <<>>
        /\ printed[p] = << Assistant(0, <<TextBlock(<<1>>)>>),
                           Assistant(0, <<TextBlock(<<1, 2>>)>>),
                           Result(UsageObject, None) >>
        /\ LET evs == EventsOf(p)
           IN  \E i \in DOMAIN evs :
                   /\ evs[i].method = "item/completed"
                   /\ evs[i].itype = "agentMessage"
                   /\ evs[i].text = <<1, 2>>
                   /\ Len(DeltasOf(p)) = 2
                   /\ DeltasOf(p)[1].text = <<1>>
                   /\ DeltasOf(p)[2].text = <<2>>

\* ------------------------------------------------- claims: turns and threads
\* C28: track_turn(t, turn, child) leaves the table's entry of t equal to that
\* turn (and its process), replacing what was there; clear_turn(t, turn)
\* removes the entry of t exactly when its stored turn id equals turn, and
\* otherwise leaves the table as it was.  Neither touches another thread's entry.
C28_TrackAndClearTurn ==
    [][ LET t == last'.thread
            turn == last'.turn
        IN  /\ last'.op = "track_turn" =>
                   /\ t \in DOMAIN active_turns'
                   /\ active_turns'[t].turn_id = turn
                   /\ Live(child', active_turns'[t].child)
                   /\ \A u \in Threads \ {t} :
                          /\ u \in DOMAIN active_turns' <=> u \in DOMAIN active_turns
                          /\ u \in DOMAIN active_turns => active_turns'[u] = active_turns[u]
            /\ last'.op = "clear_turn" =>
                   IF t \in DOMAIN active_turns /\ active_turns[t].turn_id = turn
                   THEN /\ DOMAIN active_turns' = DOMAIN active_turns \ {t}
                        /\ \A u \in DOMAIN active_turns' : active_turns'[u] = active_turns[u]
                   ELSE active_turns' = active_turns
      ]_vars

\* A clear_turn with another turn id has just left the entry of its thread.
C28_Witness ==
    /\ last.op = "clear_turn"
    /\ last.thread \in DOMAIN active_turns
    /\ active_turns[last.thread].turn_id # last.turn

\* the operations of the store that take a thread id
KeyedOps ==
    {"set_persistent_session", "set_pending_turn_id", "take_pending_turn_id", "send_message",
     "send_response", "kill_persistent_session", "interrupt_turn"}

\* C26: an operation keyed by a thread leaves every other thread's persistent
\* session (its process, pending turn id and fingerprint), that session's
\* process and standard input, and every other thread's active turn unchanged.
C26_OtherThreadsUntouched ==
    [][ last'.op \in KeyedOps =>
            \A u \in Threads \ {last'.thread} :
                /\ u \in DOMAIN persistent_sessions' <=> u \in DOMAIN persistent_sessions
                /\ u \in DOMAIN persistent_sessions =>
                       /\ persistent_sessions'[u] = persistent_sessions[u]
                       /\ child'[persistent_sessions[u].child] = child[persistent_sessions[u].child]
                       /\ stdin'[persistent_sessions[u].child] = stdin[persistent_sessions[u].child]
                /\ u \in DOMAIN active_turns' <=> u \in DOMAIN active_turns
                /\ u \in DOMAIN active_turns =>
                       /\ active_turns'[u] = active_turns[u]
                       /\ child'[active_turns[u].child] = child[active_turns[u].child]
      ]_vars

\* A pending turn id has just been set for one thread while the other thread's
\* session holds a different one.
C26_Witness ==
    /\ last.op = "set_pending_turn_id"
    /\ last.thread = "t1"
    /\ {"t1", "t2"} \subseteq DOMAIN persistent_sessions
    /\ persistent_sessions["t1"].pending_turn_id = Some(last.turn)
    /\ persistent_sessions["t2"].pending_turn_id \notin {None, Some(last.turn)}

\* ------------------------------------------------ claims: workspace removal
\* what kill_all_persistent_sessions does in one step: the store is empty
\* afterwards, the call succeeds, and no process the store held is running
KillAllEmptiesStore ==
    (last'.op = "kill_all_persistent_sessions" /\ (last' # last \/ connected' # connected)) =>
        /\ persistent_sessions' = EmptyMap
        /\ last'.ok
        /\ \A t \in DOMAIN persistent_sessions : ~Live(child', persistent_sessions[t].child)

\* C25: kill_all_persistent_sessions leaves the store empty and succeeds
\* whatever the store held, and once the workspace has been removed no
\* persistent process of it is running.
C25_RemovalLeavesNoProcess ==
    /\ [][KillAllEmptiesStore]_vars
    /\ [](~connected => \A p \in Procs : child[p].kind = "persistent" => ~Live(child, p))

\* ------------------------------------------------ claims: the search path
PathResult == path_call.out[1]
Inherited == SelectSeq(SplitPath(path_call.path_var), NonEmptyStr)
Appended == SubSeq(PathResult, Len(Inherited) + 1, Len(PathResult))
NoRepeat(seq) == \A i, j \in 1..Len(seq) : i # j => seq[i] # seq[j]
InheritedFirst ==
    /\ path_call.out # None
    /\ Len(PathResult) >= Len(Inherited)
    /\ SubSeq(PathResult, 1, Len(Inherited)) = Inherited
BlankBin == path_call.claude_bin = None \/ path_call.claude_bin[1].blank
\* with a blank or absent binary path every appended directory is a conventional one
BlankAddsNothing ==
    BlankBin =>
        \A i \in 1..Len(Appended) :
            SeqHas(FixedDirs \o HomeExtras(path_call.home, path_call.versions), Appended[i])

\* C24 as stated: the inherited entries come first in their order, every fixed
\* directory the function places comes after the inherited entries and after
\* the binary's parent directory, no directory occurs twice, and a blank or
\* absent binary path adds no directory.
C24_PathOrder_AsStated ==
    path_call.pc = "done" =>
        /\ InheritedFirst
        /\ \A i \in (Len(Inherited) + 1)..Len(PathResult) :
               SeqHas(FixedDirs, PathResult[i]) =>
                   \A j \in 1..Len(PathResult) :
                       SeqHas(BinParent(path_call.claude_bin), PathResult[j]) => j < i
        /\ NoRepeat(PathResult)
        /\ BlankAddsNothing

\* C24: the non-empty inherited entries come first, in their order and with
\* the repetitions they had; after them come the directories the function
\* adds, none of them already inherited and none twice: the fixed directories
\* in their order (each fixed directory is in the result), the HOME ones, and
\* last the parent directory of a non-blank binary path unless it is inherited
\* or one of those; a blank or absent binary path adds no directory.
C24_PathOrder ==
    path_call.pc = "done" =>
        /\ InheritedFirst
        /\ NoRepeat(Appended)
        /\ \A i \in 1..Len(Appended) : ~SeqHas(Inherited, Appended[i])
        /\ \A k \in 1..Len(FixedDirs) : SeqHas(PathResult, FixedDirs[k])
        /\ \A i, j \in 1..Len(Appended) :
               \A k, l \in 1..Len(FixedDirs) :
                   (Appended[i] = FixedDirs[k] /\ Appended[j] = FixedDirs[l] /\ k < l) => i < j
        /\ \A i \in 1..Len(BinParent(path_call.claude_bin)) :
               LET parent == BinParent(path_call.claude_bin)[i]
               IN  /\ SeqHas(PathResult, parent)
                   /\ ~SeqHas(Inherited \o FixedDirs
                                   \o HomeExtras(path_call.home, path_call.versions), parent) =>
                          /\ Appended # <<>>
                          /\ Appended[Len(Appended)] = parent
        /\ BlankAddsNothing

\* A call with a repeated inherited entry and an explicit binary path has
\* returned: the entry is still there twice and the binary's directory is last.
C24_Witness ==
    /\ path_call.pc = "done"
    /\ path_call.path_var = Some(<<Dir(<<"usr", "bin">>), EmptyStr, Dir(<<"usr", "bin">>)>>)
    /\ path_call.home # None
    /\ path_call.claude_bin = Some(BinStr(Dir(<<"custom", "path", "to", "claude">>)))
    /\ SubSeq(PathResult, 1, 2) = <<Dir(<<"usr", "bin">>), Dir(<<"usr", "bin">>)>>
    /\ PathResult[Len(PathResult)] = Dir(<<"custom", "path", "to">>)

\* ------------------------------------------------- claims: the broadcast
IsNotification(m) == "method" \in DOMAIN m
\* the events forwarded to connection c so far, in the order they were sent
Forwarded(c) ==
    LET sent == SelectSeq(client[c].out, IsNotification)
    IN  [i \in 1..Len(sent) |-> sent[i].params]
Ascending(evs) == \A i, j \in 1..Len(evs) : i < j => evs[i].turn < evs[j].turn
\* The step is one turn of the loop of c's forward_events.
ForwarderStep(c) ==
    /\ client[c].status = "open"
    /\ client'[c].status = "open"
    /\ client[c].events_task
    /\ events' = events
    /\ client'[c].lines = client[c].lines
    /\ client'[c] # client[c]

TurnEvents ==
    {"item/started", "item/completed", "item/agentMessage/delta", "item/tool/requestUserInput",
     "turn/permissionDenied", "thread/tokenUsage/updated"}
\* Event i of evs lies inside a turn: a turn/started precedes it with no
\* turn/completed in between.
InsideTurn(evs, i) ==
    \E j \in 1..(i - 1) :
        /\ evs[j].method = "turn/started"
        /\ \A k \in (j + 1)..(i - 1) : evs[k].method # "turn/completed"

\* C37: every item/started, item/completed, item/agentMessage/delta,
\* item/tool/requestUserInput, turn/permissionDenied and
\* thread/tokenUsage/updated of a process lies after a turn/started of that
\* process and before the turn/completed that follows it; and the read of a
\* user or result line while no turn is active emits nothing.
C37_EventsOnlyInsideTurn ==
    /\ [](\A p \in Procs :
             \A i \in 1..Len(EventsOf(p)) :
                 EventsOf(p)[i].method \in TurnEvents => InsideTurn(EventsOf(p), i))
    /\ [][\A p \in Procs :
             (/\ ReadStep(p)
              /\ ~reader[p].turn_active
              /\ Head(stdout[p]).type \in {"user", "result"}) => Emitted = <<>>]_vars

\* C36: among the events of one turn of a process no two item/started of
\* tools carry the same tool-use id, no two item/tool/requestUserInput name
\* the same tool-use id, and no two reasoning item/started carry the same
\* thinking block.
C36_OneStartedPerToolUse ==
    \A p \in Procs :
        \A i, j \in 1..Len(EventsOf(p)) :
            LET evs == EventsOf(p)
            IN  (i < j /\ SameTurn(evs, i, j) /\ evs[i].method = evs[j].method) =>
                    /\ (/\ evs[i].method = "item/started"
                        /\ evs[i].item.kind = "raw"
                        /\ evs[j].item.kind = "raw"
                        /\ evs[i].itype \notin {"agentMessage", "reasoning"}
                        /\ evs[j].itype \notin {"agentMessage", "reasoning"})
                       => evs[i].item # evs[j].item
                    /\ evs[i].method = "item/tool/requestUserInput"
                       => evs[i].tool_use # evs[j].tool_use
                    /\ (/\ evs[i].method = "item/started"
                        /\ evs[i].itype = "reasoning"
                        /\ evs[j].itype = "reasoning")
                       => evs[i].text # evs[j].text

\* the turn/started and turn/completed events of thread t, of all its processes
ThreadTurnMarks(t) ==
    SelectSeq(events, LAMBDA e : e.thread = t /\ e.method \in {"turn/started", "turn/completed"})

\* C38: on the events of one thread, whichever of its processes they come
\* from, a turn/started is never emitted while the turn started before it has
\* no turn/completed yet.
C38_NoTurnStartedInsideTurn ==
    \A t \in Threads :
        LET m == ThreadTurnMarks(t)
        IN  \A i \in 2..Len(m) :
                m[i].method = "turn/started" => m[i - 1].method = "turn/completed"

\* ------------------------------------------------ handle_client and its tasks
\* the responses among the lines queued for c
Responses(c) == SelectSeq(client[c].out, LAMBDA m : ~IsNotification(m))
IsPrefix(s, t) == Len(s) <= Len(t) /\ SubSeq(t, 1, Len(s)) = s

\* What C39 says of dispatch and of the order of lines: a line is handled in
\* one turn of the loop, which calls handle_rpc_request at most once and queues
\* at most one response behind everything queued before; the write task writes
\* the queue from its head; responses carry the request ids in arrival order;
\* when an auth succeeds no notification has been queued yet and the response
\* is the line queued by that step; no connection ever spawns a second
\* forwarding task, and a forwarding task belongs to an authenticated
\* connection.
OrderedConnection ==
    /\ [](\A c \in Conns :
            /\ \A i, j \in 1..Len(Responses(c)) :
                   i < j => Responses(c)[i].id < Responses(c)[j].id
            /\ client[c].written <= Len(client[c].out)
            /\ client[c].tasks <= 1
            /\ client[c].events_task => (client[c].authenticated /\ client[c].tasks = 1))
    /\ [][\A c \in Conns :
             /\ (client[c].status = "open" /\ client'[c].status = "open") =>
                    /\ IsPrefix(client[c].out, client'[c].out)
                    /\ client'[c].written \in {client[c].written, client[c].written + 1}
                    /\ client'[c].dispatched # client[c].dispatched =>
                           /\ LineStep(c)
                           /\ client'[c].dispatched = client[c].dispatched + 1
             /\ LineStep(c) =>
                    /\ Len(Sent(c)) <= 1
                    /\ (~client[c].authenticated /\ client'[c].authenticated) =>
                           /\ \A i \in 1..Len(client'[c].out) : ~IsNotification(client'[c].out[i])
                           /\ (client'[c].line.id # None /\ client[c].writer) =>
                                  Sent(c) = <<ResultTo(Unwrap(client'[c].line.id), "ok")>>
                           /\ client'[c].events_task]_vars

GenericFailure == <<9, 9>>
StderrOutputs == {<<>>, <<0>>, <<5, 0>>}

RECURSIVE TrimStart(_)
TrimStart(s) == IF s # <<>> /\ Head(s) = 0 THEN TrimStart(Tail(s)) ELSE s
RECURSIVE TrimEnd(_)
TrimEnd(s) == IF s # <<>> /\ s[Len(s)] = 0 THEN TrimEnd(SubSeq(s, 1, Len(s) - 1)) ELSE s
Trim(s) == TrimEnd(TrimStart(s))

Interrupters == 1..MaxInterrupts
ActiveTurnsLocked == \E c \in Interrupters : call[c].pc = "interrupt_child"
ChildLocked(p) == reader[p].status = "daemon_wait"

\* the exit status a kill leaves on a process that was still running
Killed(before, after) ==
    [p \in Procs |-> IF before[p].status = "running" /\ after[p].status = "reaped"
                     THEN [after[p] EXCEPT !.exit = "signal"]
                     ELSE after[p]]

\* a runner that reports every failure twice
DaemonTurnResult_ErrorTwice(rd, t, success, stderr_output) ==
    IF ~success
    THEN [evs |-> <<[Event("error", t, rd.current_turn_id) EXCEPT !.status = "failed",
                                                                  !.text = Trim(stderr_output)],
                    [Event("error", t, rd.current_turn_id) EXCEPT !.status = "failed",
                                                                  !.text = Trim(stderr_output)]>>,
          ok |-> FALSE,
          ret |-> Some(IF Trim(stderr_output) = <<>> THEN GenericFailure ELSE stderr_output)]
    ELSE [evs |-> DaemonTurnEnd(rd, t, TRUE), ok |-> TRUE, ret |-> None]
\* After clear_turn: the error event with the trimmed stderr and the error
\* returned, or the closing events and the result.
DaemonTurnResult(rd, t, success, stderr_output) ==
    IF ~success
    THEN [evs |-> <<[DaemonTurnEnd(rd, t, FALSE)[1] EXCEPT !.text = Trim(stderr_output)]>>,
          ok |-> FALSE,
          ret |-> Some(IF Trim(stderr_output) = <<>> THEN GenericFailure ELSE stderr_output)]
    ELSE [evs |-> DaemonTurnEnd(rd, t, TRUE), ok |-> TRUE, ret |-> None]

NewRunners == {p \in Procs : reader[p].status = "none"}

\* turn_id = Uuid::new_v4(), then turn/started and item/started
TurnBegin(t) ==
    /\ NewRunners # {}
    /\ LET p == CHOOSE q \in NewRunners : \A r \in NewRunners : q <= r
       IN  /\ reader' = [reader EXCEPT ![p] =
                            [DaemonReaderInit(uuid_next) EXCEPT !.status = "daemon_spawn"]]
           /\ child' = [child EXCEPT ![p] = [NoChild EXCEPT !.thread = t, !.kind = "turn"]]
           /\ events' = events \o Stamp(DaemonTurnStart(t, uuid_next), p, 0)
    /\ uuid_next' = uuid_next + 1
    /\ UNCHANGED <<persistent_sessions, active_turns, stdin, session_init_lock, stdout,
                   answering, printed, call, stderr_task, last, usage_call, daemonVars, envVars>>

\* command.spawn() succeeds
TurnSpawn(p) ==
    /\ reader[p].status = "daemon_spawn"
    /\ child' = [child EXCEPT ![p] = Spawned(child[p].thread, "turn")]
    /\ reader' = [reader EXCEPT ![p].status = "daemon_track"]
    /\ UNCHANGED <<persistent_sessions, active_turns, stdin, session_init_lock, stdout,
                   answering, printed, call, stderr_task, events, uuid_next, last, usage_call,
                   daemonVars, envVars>>

\* command.spawn() fails: `?` returns the error
TurnSpawnFails(p) ==
    /\ reader[p].status = "daemon_spawn"
    /\ reader' = [reader EXCEPT ![p].status = "done"]
    /\ last' = Op("run_claude_turn", child[p].thread, reader[p].current_turn_id, FALSE,
                  "spawn failed", None, FALSE)
    /\ UNCHANGED <<storeVars, session_init_lock, stdout, answering, printed, call,
                   stderr_task, events, uuid_next, usage_call, daemonVars, envVars>>

\* session.track_turn(thread_id, turn_id, child), then stdout and stderr are
\* taken from the child
TurnTrack(p) ==
    /\ reader[p].status = "daemon_track"
    /\ ~ActiveTurnsLocked
    /\ active_turns' = track_turn(active_turns, child[p].thread, reader[p].current_turn_id, p)
    /\ reader' = [reader EXCEPT ![p].status = "daemon"]
    /\ UNCHANGED <<persistent_sessions, child, stdin, session_init_lock, stdout, answering,
                   printed, call, stderr_task, events, uuid_next, last, usage_call,
                   daemonVars, envVars>>

TurnLines == {Assistant(0, <<TextBlock(<<1>>)>>), Line("ioerror")}

TurnProcPrint(p, line) ==
    /\ child[p].kind = "turn"
    /\ Len(printed[p]) < MaxTurnLines
    /\ WriteStdout(p, line)
    /\ UNCHANGED <<storeVars, session_init_lock, answering, call, reader, stderr_task, events,
                   uuid_next, last, usage_call, daemonVars, envVars>>

\* The process ends on its own, with a zero or a non-zero status.
TurnProcExit(p, code) ==
    /\ child[p].kind = "turn"
    /\ Live(child, p)
    /\ child' = [child EXCEPT ![p].status = "exited", ![p].exit = code]
    /\ UNCHANGED <<persistent_sessions, active_turns, stdin, taskVars, last, usage_call,
                   daemonVars, envVars>>

\* next_line() returns Ok(None): the process is gone and its output is read;
\* the runner locks the child and calls wait()
TurnLoopEnd(p) ==
    /\ reader[p].status = "daemon"
    /\ stdout[p] = <<>>
    /\ ~Live(child, p)
    /\ reader' = [reader EXCEPT ![p].status = "daemon_wait"]
    /\ UNCHANGED <<storeVars, session_init_lock, stdout, answering, printed, call,
                   stderr_task, events, uuid_next, last, usage_call, daemonVars, envVars>>

\* wait() returns once the process has ended; the guard on the child is dropped
TurnWait(p) ==
    /\ reader[p].status = "daemon_wait"
    /\ ~Live(child, p)
    /\ child' = [child EXCEPT ![p].status = "reaped"]
    /\ reader' = [reader EXCEPT ![p].status = "daemon_clear"]
    /\ UNCHANGED <<persistent_sessions, active_turns, stdin, session_init_lock, stdout,
                   answering, printed, call, stderr_task, events, uuid_next, last, usage_call,
                   daemonVars, envVars>>

\* clear_turn, the stderr task's output, then the error event and the error,
\* or the closing events and the result
TurnFinish(p, stderr_output) ==
    /\ reader[p].status = "daemon_clear"
    /\ ~ActiveTurnsLocked
    /\ active_turns' = clear_turn(active_turns, child[p].thread, reader[p].current_turn_id)
    /\ LET r == DaemonTurnResult(reader[p], child[p].thread, child[p].exit = "success",
                                 stderr_output)
       IN  /\ events' = events \o Stamp(r.evs, p, 0)
           /\ last' = Op("run_claude_turn", child[p].thread, reader[p].current_turn_id,
                         r.ok, "", r.ret, FALSE)
    /\ reader' = [reader EXCEPT ![p].status = "done"]
    /\ UNCHANGED <<persistent_sessions, child, stdin, session_init_lock, stdout, answering,
                   printed, call, stderr_task, uuid_next, usage_call, daemonVars, envVars>>

\* interrupt_turn(t, turn): under the active_turns mutex the entry is removed;
\* a matching turn's child is locked and killed, which waits while the runner
\* holds the child in wait().
InterruptTurn(c, t, turn) ==
    /\ call[c].pc = "idle"
    /\ ~ActiveTurnsLocked
    /\ IF /\ t \in DOMAIN active_turns
          /\ active_turns[t].turn_id = turn
          /\ ChildLocked(active_turns[t].child)
       THEN /\ active_turns' = MapRemove(active_turns, t)
            /\ call' = [call EXCEPT ![c] = [@ EXCEPT !.pc = "interrupt_child", !.thread = t,
                                                     !.turn_id = turn,
                                                     !.spawned = active_turns[t].child]]
            /\ UNCHANGED <<persistent_sessions, child, last>>
       ELSE LET r == interrupt_turn(active_turns, persistent_sessions, child, t, turn)
            IN  /\ active_turns' = r.active_turns
                /\ persistent_sessions' = r.sessions
                /\ child' = Killed(child, r.child)
                /\ call' = [call EXCEPT ![c] = [@ EXCEPT !.pc = "interrupt_done", !.thread = t,
                                                         !.turn_id = turn, !.ok = r.ok,
                                                         !.err = r.err]]
                /\ last' = [Op("interrupt_turn", t, turn, r.ok, r.err, None, FALSE)
                               EXCEPT !.io = r.io]
    /\ UNCHANGED <<stdin, session_init_lock, stdout, answering, printed, reader, stderr_task,
                   events, uuid_next, usage_call, daemonVars, envVars>>

\* the child's mutex is free: kill, and the guards are dropped
InterruptTurnKill(c) ==
    /\ call[c].pc = "interrupt_child"
    /\ ~ChildLocked(call[c].spawned)
    /\ LET k == ChildKill(child, call[c].spawned)
           ok == k.ok \/ k.err = "InvalidInput"
           err == IF k.err = "InvalidInput" THEN "" ELSE k.err
       IN  /\ child' = Killed(child, k.child)
           /\ call' = [call EXCEPT ![c].pc = "interrupt_done", ![c].ok = ok, ![c].err = err]
           /\ last' = [Op("interrupt_turn", call[c].thread, call[c].turn_id, ok, err, None, FALSE)
                          EXCEPT !.io = <<"lock active_turns", k.ev, "unlock active_turns">>]
    /\ UNCHANGED <<persistent_sessions, active_turns, stdin, session_init_lock, stdout,
                   answering, printed, reader, stderr_task, events, uuid_next, usage_call,
                   daemonVars, envVars>>

TurnRunnerStep(p) ==
    \/ TurnSpawn(p)
    \/ TurnSpawnFails(p)
    \/ TurnTrack(p)
    \/ DaemonReadStdout(p)
    \/ TurnLoopEnd(p)
    \/ TurnWait(p)
    \/ \E stderr_output \in StderrOutputs : TurnFinish(p, stderr_output)

TurnNext ==
    \/ \E t \in Threads : TurnBegin(t)
    \/ \E p \in Procs : TurnRunnerStep(p)
    \/ \E p \in Procs, line \in TurnLines : TurnProcPrint(p, line)
    \/ \E p \in Procs, code \in {"success", "failure"} : TurnProcExit(p, code)
    \/ \E c \in Interrupters, t \in Threads, turn \in Procs : InterruptTurn(c, t, turn)
    \/ \E c \in Interrupters : InterruptTurnKill(c)

TurnSpec == Init /\ [][TurnNext]_vars

\* run_claude_turn and interrupt_turn are futures the runtime keeps polling:
\* each takes its next step when it can.  Nothing makes a process end.
TurnLiveSpec ==
    /\ TurnSpec
    /\ \A p \in Procs : WF_vars(TurnRunnerStep(p))
    /\ \A c \in Interrupters : WF_vars(InterruptTurnKill(c))

\* The step is runner p's return after wait(): clear_turn and what follows.
FinishStep(p) == reader[p].status = "daemon_clear" /\ reader'[p].status = "done"
\* the error events of turn `turn`
ErrorsOf(turn) == SelectSeq(events, LAMBDA e : e.method = "error" /\ e.turn = turn)

\* C32: when the process of a per-turn call ended with a non-success status
\* (on its own or killed by interrupt_turn), the call's return emits exactly
\* one event, an error event with the thread id and the turn id, and returns
\* an error whose text is the captured stderr, or the generic failure message
\* when the stderr is empty or blank; the active-turn table has no entry for
\* that turn then; and no turn ever has two error events, or one before its
\* call has returned.
C32_FailedTurnReportsOnce ==
    /\ [][\A p \in Procs :
             (FinishStep(p) /\ child[p].exit # "success") =>
                 LET t == child[p].thread
                     turn == reader[p].current_turn_id
                 IN  /\ Len(Emitted) = 1
                     /\ Emitted[1].method = "error"
                     /\ Emitted[1].thread = t
                     /\ Emitted[1].turn = turn
                     /\ last'.op = "run_claude_turn"
                     /\ last'.turn = turn
                     /\ ~last'.ok
                     /\ last'.ret # None
                     /\ IF Emitted[1].text = <<>>
                        THEN Unwrap(last'.ret) = GenericFailure
                        ELSE /\ Unwrap(last'.ret) \in StderrOutputs
                             /\ Trim(Unwrap(last'.ret)) = Emitted[1].text
                     /\ ~(t \in DOMAIN active_turns' /\ active_turns'[t].turn_id = turn)]_vars
    /\ [](\A p \in Procs :
            LET n == Len(ErrorsOf(reader[p].current_turn_id))
            IN  IF reader[p].status = "done" /\ child[p].status = "reaped" /\ child[p].exit # "success"
                THEN n = 1 ELSE n = 0)

C32_Witness ==
    \E p \in Procs :
        /\ reader[p].status = "done"
        /\ child[p].exit = "signal"
        /\ last.op = "run_claude_turn"
        /\ last.turn = reader[p].current_turn_id
        /\ last.ret = Some(GenericFailure)
        /\ Len(ErrorsOf(reader[p].current_turn_id)) = 1
        /\ \E c \in Interrupters : call[c].pc = "interrupt_done" /\ call[c].ok

\* the turn/started events of turn `turn`, and its terminal events
StartsOf(turn) == SelectSeq(events, LAMBDA e : e.method = "turn/started" /\ e.turn = turn)
TerminalsOf(turn) ==
    SelectSeq(events, LAMBDA e : e.method \in {"turn/completed", "error"} /\ e.turn = turn)

\* C34: a call of run_claude_turn that has emitted turn/started has emitted,
\* by the time it has returned (with a result or with an error), exactly one
\* terminal event for the same turn id, turn/completed or error, and none
\* before that.
C34_StartedTurnIsTerminated ==
    \A p \in Procs :
        LET turn == reader[p].current_turn_id
        IN  Len(StartsOf(turn)) = 1 =>
                IF reader[p].status = "done"
                THEN Len(TerminalsOf(turn)) = 1
                ELSE Len(TerminalsOf(turn)) = 0

\* C33: when interrupt_turn and a runner race on one per-turn process, every
\* call of interrupt_turn that found the turn returns, and returns success,
\* whether its kill comes before or after the process has ended; the runner
\* of a process that has ended returns; and once both have returned the table
\* has no entry for that turn.
C33_InterruptRacesRunner ==
    /\ [](\A c \in Interrupters : call[c].pc = "interrupt_done" => call[c].ok)
    /\ [](\A c \in Interrupters : \A p \in Procs :
            (/\ call[c].pc = "interrupt_done"
             /\ reader[p].status = "done"
             /\ call[c].turn_id = reader[p].current_turn_id
             /\ call[c].thread = child[p].thread)
            => ~(/\ child[p].thread \in DOMAIN active_turns
                 /\ active_turns[child[p].thread].turn_id = reader[p].current_turn_id))
    /\ \A c \in Interrupters :
           (call[c].pc = "interrupt_child") ~> (call[c].pc = "interrupt_done")
    /\ \A p \in Procs :
           (child[p].kind = "turn" /\ child[p].status \in {"exited", "reaped"})
               ~> (reader[p].status = "done")

\* Runner p is past track_turn, its process runs, and no interrupt_turn has
\* taken its entry.
TrackedAndRunning(p) ==
    /\ child[p].kind = "turn"
    /\ Live(child, p)
    /\ reader[p].status \in {"daemon", "daemon_wait"}
    /\ \A c \in Interrupters :
           call[c].pc # "idle" =>
               ~(call[c].thread = child[p].thread /\ call[c].turn_id = reader[p].current_turn_id)
\* The step is a call of interrupt_turn(t, turn) that returns at once.
InterruptStep(c, t, turn) ==
    /\ call[c].pc = "idle"
    /\ call'[c].pc = "interrupt_done"
    /\ call'[c].thread = t
    /\ call'[c].turn_id = turn

\* C35: while the process of a tracked per-turn call is running, the
\* active-turn table maps its thread to that turn and that process, and
\* interrupt_turn with the thread and that turn id ends exactly that process,
\* also when two turns run on one thread.
C35_RunningTurnIsInterruptible ==
    /\ [](\A p \in Procs :
            TrackedAndRunning(p) =>
                /\ child[p].thread \in DOMAIN active_turns
                /\ active_turns[child[p].thread] = ActiveTurn(reader[p].current_turn_id, p))
    /\ [][\A c \in Interrupters : \A p \in Procs :
             (/\ TrackedAndRunning(p)
              /\ ~ChildLocked(p)
              /\ InterruptStep(c, child[p].thread, reader[p].current_turn_id))
             => /\ ~Live(child', p)
                /\ \A q \in Procs \ {p} : child'[q] = child[q]]_vars

\* ------------------------------------------------ build_thread_from_session
\* A line of the session log: its type, its uuid (0: none), the entries of its
\* message content, and whether its toolUseResult names an agentId.
ThreadLine(type, uuid, content, agent) ==
    [type |-> type, uuid |-> uuid, content |-> content, agent |-> agent]
\* value.uuid, or the thread id
MessageId(uuid) == IF uuid = 0 THEN Id("thread", 0, 0, 0) ELSE RawId(uuid)
ThreadItem(id, itype, text) ==
    [Event("", "t1", 0) EXCEPT !.item = id, !.itype = itype, !.text = text]

has_user_message_content(content) ==
    \E i \in 1..Len(content) : content[i].type \in {"text", "image", "localImage", "skill"}

\* an insertion that never looks the id up
PutToolItem_AlwaysPush(acc, id, item) ==
    [acc EXCEPT !.tool_item_indices = MapInsert(@, id, Len(acc.items) + 1),
                !.items = Append(@, item)]
\* items[index] = item for an id that has an index, else the index is recorded
\* and the item pushed (positions count from 1 here)
PutToolItem(acc, id, item) ==
    IF id \in DOMAIN acc.tool_item_indices
    THEN [acc EXCEPT !.items[acc.tool_item_indices[id]] = item]
    ELSE [acc EXCEPT !.tool_item_indices = MapInsert(@, id, Len(acc.items) + 1),
                     !.items = Append(@, item)]

ThreadUserEntry(acc, entry, agent) ==
    IF entry.type # "tool_result" \/ agent THEN acc
    ELSE LET command == IF entry.id \in DOMAIN acc.tool_names
                        THEN acc.tool_names[entry.id] ELSE "Tool"
             id == IF entry.id = 0 THEN ToolResultItemId(0, Len(acc.items))
                   ELSE RawId(entry.id)
         IN  PutToolItem(acc, id, build_tool_item(ThreadItem(NoId, "", <<>>), id, command,
                                                  "completed", Some(entry.text)))

ThreadAssistantEntry(acc, entry, uuid) ==
    IF entry.type = "text" THEN [acc EXCEPT !.text = @ \o entry.text]
    ELSE IF entry.type = "thinking"
    THEN IF entry.text = <<>> THEN acc
         ELSE [acc EXCEPT !.thinking_index = @ + 1,
                          !.items = Append(@, ThreadItem(ThinkingItemId(MessageId(uuid),
                                                                        acc.thinking_index),
                                                         "reasoning", entry.text))]
    ELSE IF entry.type = "tool_use"
    THEN LET named == IF entry.id # 0
                      THEN [acc EXCEPT !.tool_names = MapInsert(@, entry.id, entry.name)]
                      ELSE acc
             id == IF entry.id = 0 THEN ToolItemId(0, Len(acc.items)) ELSE RawId(entry.id)
         IN  PutToolItem(named, id, build_tool_item(ThreadItem(NoId, "", <<>>), id, entry.name,
                                                    "running", None))
    ELSE acc

RECURSIVE ThreadEntries(_, _, _)
ThreadEntries(acc, content, line) ==
    IF content = <<>> THEN acc
    ELSE ThreadEntries(IF line.type = "user"
                       THEN ThreadUserEntry(acc, Head(content), line.agent)
                       ELSE ThreadAssistantEntry(acc, Head(content), line.uuid),
                       Tail(content), line)

\* one iteration of the loop over the lines of the session file
ThreadLogLine(acc, line) ==
    IF line.type = "user"
    THEN LET pushed == IF has_user_message_content(line.content)
                       THEN [acc EXCEPT !.items = Append(@, ThreadItem(MessageId(line.uuid),
                                                                       "userMessage", <<>>))]
                       ELSE acc
         IN  ThreadEntries(pushed, line.content, line)
    ELSE IF line.type = "assistant"
    THEN LET walked == ThreadEntries([acc EXCEPT !.text = <<>>, !.thinking_index = 0],
                                     line.content, line)
         IN  IF walked.text # <<>>
             THEN [walked EXCEPT !.items = Append(@, ThreadItem(MessageId(line.uuid),
                                                                "agentMessage", walked.text))]
             ELSE walked
    ELSE acc

RECURSIVE ThreadLog(_, _)
ThreadLog(acc, log) ==
    IF log = <<>> THEN acc ELSE ThreadLog(ThreadLogLine(acc, Head(log)), Tail(log))

\* the items of the thread's one turn
build_thread_from_session(log) ==
    ThreadLog([items |-> <<>>, tool_names |-> EmptyMap, tool_item_indices |-> EmptyMap,
               text |-> <<>>, thinking_index |-> 0], log).items

ThreadLines ==
    { ThreadLine("assistant", 7, <<ToolUse(1, "Bash")>>, FALSE),
      ThreadLine("assistant", 8, <<ToolUse(1, "Write")>>, FALSE),
      ThreadLine("assistant", 9, <<TextBlock(<<1>>), ToolUse(2, "Bash"), ToolUse(2, "Bash")>>, FALSE),
      ThreadLine("assistant", 0, <<ToolUse(0, "Bash")>>, FALSE),
      ThreadLine("assistant", 7, <<Thinking(<<3>>), TextBlock(<<1>>)>>, FALSE),
      ThreadLine("user", 5, <<TextBlock(<<2>>)>>, FALSE),
      ThreadLine("user", 0, <<ToolResult(1, <<4>>, FALSE, FALSE)>>, FALSE),
      ThreadLine("user", 0, <<ToolResult(0, <<4>>, FALSE, FALSE)>>, FALSE),
      ThreadLine("user", 0, <<ToolResult(1, <<4>>, FALSE, FALSE)>>, TRUE),
      ThreadLine("user", 6, <<TextBlock(<<2>>), ToolResult(2, <<4>>, TRUE, FALSE)>>, FALSE),
      ThreadLine("summary", 0, <<>>, FALSE) }

ThreadInit ==
    /\ persistent_sessions = EmptyMap
    /\ active_turns = EmptyMap
    /\ child = [p \in Procs |-> NoChild]
    /\ stdin = [p \in Procs |-> <<>>]
    /\ last = NoOp
    /\ TasksIdle
    /\ usage_call = NoUsageCall
    /\ DaemonIdle
    /\ path_call = NoPathCall
    /\ connected = TRUE
    /\ task_lock = NoTaskLock
    /\ \E n \in 0..MaxLogLines : \E log \in [1..n -> ThreadLines] :
           thread_call = [pc |-> "input", log |-> log, items |-> <<>>]

BuildThreadFromSession ==
    /\ thread_call.pc = "input"
    /\ thread_call' = [thread_call EXCEPT !.pc = "done",
                                          !.items = build_thread_from_session(thread_call.log)]
    /\ UNCHANGED <<storeVars, taskVars, last, usage_call, daemonVars, path_call, connected, task_lock>>

ThreadNext == BuildThreadFromSession

ThreadSpec == ThreadInit /\ [][ThreadNext]_vars

IsToolItem(item) == item.status \in {"running", "completed"}
\* the ids of the tool items line `line` builds
ToolIdsOf(line) ==
    {RawId(line.content[i].id) : i \in {j \in 1..Len(line.content) :
        /\ line.content[j].id # 0
        /\ \/ line.type = "assistant" /\ line.content[j].type = "tool_use"
           \/ line.type = "user" /\ line.content[j].type = "tool_result" /\ ~line.agent}}

\* C31: in the items built from a session log no two tool items have the same
\* id; and the last line of the log left every item built from the lines
\* before it at its position and, unless it is a tool item whose id the line
\* mentions, as it was, while a tool item whose id the line mentions again is
\* the item built from that line (running for a tool_use, completed for a
\* tool_result), not a further item.
C31_ToolItemsReplacedInPlace ==
    (thread_call.pc = "done" /\ thread_call.log # <<>>) =>
        LET log == thread_call.log
            line == log[Len(log)]
            before == build_thread_from_session(SubSeq(log, 1, Len(log) - 1))
            items == thread_call.items
        IN  /\ \A i, j \in 1..Len(items) :
                   (i < j /\ IsToolItem(items[i]) /\ IsToolItem(items[j])) =>
                       items[i].item # items[j].item
            /\ Len(before) <= Len(items)
            /\ \A i \in 1..Len(before) :
                   /\ items[i].item = before[i].item
                   /\ IF IsToolItem(before[i]) /\ before[i].item \in ToolIdsOf(line)
                      THEN /\ IsToolItem(items[i])
                           /\ items[i].status = IF line.type = "user" THEN "completed"
                                                ELSE "running"
                      ELSE items[i] = before[i]
            /\ \A i \in (Len(before) + 1)..Len(items) :
                   IsToolItem(items[i]) =>
                       \A j \in 1..Len(before) : before[j].item # items[i].item

C31_Witness ==
    /\ thread_call.pc = "done"
    /\ thread_call.log = <<ThreadLine("assistant", 7, <<ToolUse(1, "Bash")>>, FALSE),
                           ThreadLine("user", 5, <<TextBlock(<<2>>)>>, FALSE),
                           ThreadLine("user", 0, <<ToolResult(1, <<4>>, FALSE, FALSE)>>, FALSE)>>
    /\ Len(thread_call.items) = 2
    /\ thread_call.items[1].item = RawId(1)
    /\ thread_call.items[1].status = "completed"
    /\ thread_call.items[2].itype = "userMessage"

\* ---------------------------------------------------------------- FileLock
\* task_lock.file is the lock file of one task list: None, or who created it
\* and whether it is older than 30 seconds.  An acquirer is at "try" (about to
\* open with create_new), "check" (AlreadyExists: about to read the metadata),
\* "remove" (judged stale: about to remove_file), "held" (owns a FileLock),
\* "failed" (gave up) or "released" (its guard was dropped).
MAX_ATTEMPTS == 50
TaskOps == {"create_task", "update_task", "delete_task"}
LockFile(a) == Some([owner |-> a, old |-> FALSE])
LockVars == <<storeVars, taskVars, last, usage_call, daemonVars, path_call, connected,
              thread_call>>

\* create_task, update_task or delete_task is called: FileLock::acquire begins
LockCall(a, op) ==
    /\ task_lock.acq[a].pc = "idle"
    /\ task_lock' = [task_lock EXCEPT !.acq[a] = [pc |-> "try", op |-> op, attempts |-> 0]]
    /\ UNCHANGED LockVars

\* `while attempts < MAX_ATTEMPTS`: open with create_new, or give up
LockTry(a) ==
    /\ task_lock.acq[a].pc = "try"
    /\ task_lock' =
          IF task_lock.acq[a].attempts >= MAX_ATTEMPTS
          THEN [task_lock EXCEPT !.acq[a].pc = "failed"]
          ELSE IF task_lock.file = None
          THEN [task_lock EXCEPT !.file = LockFile(a), !.acq[a].pc = "held"]
          ELSE [task_lock EXCEPT !.acq[a].pc = "check"]
    /\ UNCHANGED LockVars

\* fs::metadata(&path) and modified().elapsed(): older than 30 seconds or not;
\* a file that is there no more or is young costs an attempt and a sleep
LockCheck(a) ==
    /\ task_lock.acq[a].pc = "check"
    /\ task_lock' =
          IF task_lock.file # None /\ Unwrap(task_lock.file).old
          THEN [task_lock EXCEPT !.acq[a].pc = "remove"]
          ELSE [task_lock EXCEPT !.acq[a].pc = "try", !.acq[a].attempts = @ + 1]
    /\ UNCHANGED LockVars

\* `let _ = fs::remove_file(&path)`, then the attempt is counted and the sleep
LockRemoveStale(a) ==
    /\ task_lock.acq[a].pc = "remove"
    /\ task_lock' = [task_lock EXCEPT !.file = None, !.acq[a].pc = "try",
                                      !.acq[a].attempts = @ + 1]
    /\ UNCHANGED LockVars

\* the operation ends and its guard is dropped: Drop removes the file at path
LockDrop(a) ==
    /\ task_lock.acq[a].pc = "held"
    /\ task_lock' = [task_lock EXCEPT !.file = None, !.acq[a].pc = "released"]
    /\ UNCHANGED LockVars

\* thirty seconds pass since the lock file was created
LockAges ==
    /\ task_lock.file # None
    /\ ~Unwrap(task_lock.file).old
    /\ task_lock' = [task_lock EXCEPT !.file = Some([Unwrap(@) EXCEPT !.old = TRUE])]
    /\ UNCHANGED LockVars

LockNext ==
    \/ \E a \in Acquirers, op \in TaskOps : LockCall(a, op)
    \/ \E a \in Acquirers : LockTry(a)
    \/ \E a \in Acquirers : LockCheck(a)
    \/ \E a \in Acquirers : LockRemoveStale(a)
    \/ \E a \in Acquirers : LockDrop(a)
    \/ LockAges

\* The list's directory is empty of locks, or holds the lock file of a process
\* that ended without dropping its guard more than 30 seconds ago (owner 0).
LockInit ==
    /\ persistent_sessions = EmptyMap
    /\ active_turns = EmptyMap
    /\ child = [p \in Procs |-> NoChild]
    /\ stdin = [p \in Procs |-> <<>>]
    /\ last = NoOp
    /\ TasksIdle
    /\ usage_call = NoUsageCall
    /\ DaemonIdle
    /\ path_call = NoPathCall
    /\ connected = TRUE
    /\ thread_call = NoThreadCall
    /\ task_lock \in {NoTaskLock,
                      [NoTaskLock EXCEPT !.file = Some([owner |-> 0, old |-> TRUE])]}

LockSpec == LockInit /\ [][LockNext]_vars

\* C40: no two calls hold a FileLock of the list at a time, whatever the
\* interleaving and also when a lock file is removed as stale; and an acquire
\* gives up exactly when it has made 50 attempts.
C40_FileLockExcludes ==
    /\ \A a, b \in Acquirers :
           (task_lock.acq[a].pc = "held" /\ task_lock.acq[b].pc = "held") => a = b
    /\ \A a \in Acquirers :
           /\ task_lock.acq[a].attempts <= MAX_ATTEMPTS
           /\ task_lock.acq[a].pc = "failed" => task_lock.acq[a].attempts = MAX_ATTEMPTS

====
